---- MODULE Spec2Model ----
(***************************************************************************)
(* Model of the rule-based talent matcher, src/tfo_chatbot.py (TFOChatbot). *)
(*                                                                         *)
(* Numbers.  Python computes the scores in binary floating point.  Here a  *)
(* skill score is the exact rational  value / ScoreDen  (an integer        *)
(* numerator over a fixed denominator), and a total_score, which the code  *)
(* rounds to two decimals, is an integer number of hundredths.  A value    *)
(* that is exactly representable (0, 1.0, 100.0) is the same in both; the  *)
(* one place where the floating point error decides the outcome, a         *)
(* total_score that lies exactly half way between two hundredths, is a     *)
(* nondeterministic choice (half_up).                                      *)
(*                                                                         *)
(* Dates are day ordinals; date.today() is the variable today.             *)
(*                                                                         *)
(* A call that raises is the record Raise(exception).                      *)
(***************************************************************************)
EXTENDS Integers, Sequences, FiniteSets, TLC

VARIABLES
    employees,      \* self.employees
    requisitions,   \* self.requisitions
    skill_ontology, \* self.skill_ontology
    today,          \* date.today()
    pc,             \* "idle": no call in progress; "done": a call has returned or raised
    op,             \* the method that was called
    args,           \* its arguments
    result          \* what it returned (Return) or raised (Raise)

vars == <<employees, requisitions, skill_ontology, today, pc, op, args, result>>

None == "None"

Return(v) == [raised |-> None, value |-> v]
Raise(e) == [raised |-> e, value |-> None]

Min(a, b) == IF a <= b THEN a ELSE b
Max(a, b) == IF a >= b THEN a ELSE b

-----------------------------------------------------------------------------
(* Bounds of the inputs of the single-pair scorer.                         *)
MaxExp == 6
MaxMinExp == 3

(* Bounds of the generated employees, requisitions and requirement lists,  *)
(* and of the days.                                                        *)
MaxReqSkills == 2
MaxMatchExp == 2
MaxMatchMinExp == 1
MaxDays == 4
MaxQueryWords == 2
MaxExtraReqs == 2
MaxMatches == 3

(* Largest min_experience of the mock requisitions (REQ004, Java).         *)
MockMaxMinExp == 6

RECURSIVE Gcd(_, _)
Gcd(a, b) == IF b = 0 THEN a ELSE Gcd(b, a % b)

RECURSIVE LcmUpTo(_)
LcmUpTo(n) == IF n <= 1 THEN 1 ELSE (LcmUpTo(n - 1) * n) \div Gcd(LcmUpTo(n - 1), n)


(* Every min_experience of the model divides Unit, so that                 *)
(* experience_years / min_experience is an exact multiple of 1/Unit.       *)
Unit == LcmUpTo(Max(Max(MaxMinExp, MaxMatchMinExp), MockMaxMinExp))

(* The denominator of a skill score: the score is value / ScoreDen.        *)
ScoreDen == 100 * Unit

Levels == {"BEGINNER", "INTERMEDIATE", "ADVANCED", "EXPERT"}

(* A proficiency level that level_scores does not know.                    *)
OtherLevel == "PRINCIPAL"

(* Mutant of level_scores: EXPERT a step above ADVANCED.                   *)
LevelScoresExpert40 == [BEGINNER |-> 10, INTERMEDIATE |-> 20, ADVANCED |-> 30, EXPERT |-> 40]

(* level_scores                                                             *)
level_scores == [BEGINNER |-> 10, INTERMEDIATE |-> 20, ADVANCED |-> 30, EXPERT |-> 30]

(* dict.get(key, default)                                                   *)
DictGet(d, key, default) == IF key \in DOMAIN d THEN d[key] ELSE default

(* Mutants of the scorer.                                                   *)
ScoreUncapped(emp_skill, req_skill) ==
    IF req_skill["min_experience"] = 0
    THEN Raise("ZeroDivisionError")
    ELSE LET exp_ratio == (emp_skill["experience_years"] * Unit) \div req_skill["min_experience"]
             emp_level_score == DictGet(level_scores, emp_skill["proficiency_level"], 0)
             req_level_score == DictGet(level_scores, req_skill["required_level"], 15)
         IN  Return(exp_ratio * 35 + Min(emp_level_score, req_level_score) * Unit)

ScoreHalfCredit(emp_skill, req_skill) ==
    IF req_skill["min_experience"] = 0
    THEN Raise("ZeroDivisionError")
    ELSE LET exp_ratio == Min((emp_skill["experience_years"] * Unit) \div req_skill["min_experience"], Unit)
             emp_level_score == DictGet(level_scores, emp_skill["proficiency_level"], 0)
             req_level_score == DictGet(level_scores, req_skill["required_level"], 15)
         IN  Return(Min(exp_ratio * 35, 70 * Unit) + Min(emp_level_score, req_level_score) * Unit)

ScoreExactLevelOnly(emp_skill, req_skill) ==
    IF req_skill["min_experience"] = 0
    THEN Raise("ZeroDivisionError")
    ELSE LET exp_ratio == Min((emp_skill["experience_years"] * Unit) \div req_skill["min_experience"], 2 * Unit)
             emp_level_score == DictGet(level_scores, emp_skill["proficiency_level"], 0)
             req_level_score == DictGet(level_scores, req_skill["required_level"], 15)
         IN  Return(Min(exp_ratio * 35, 70 * Unit)
                    + (IF emp_level_score = req_level_score THEN req_level_score ELSE 0) * Unit)

ScoreLevelUncapped(emp_skill, req_skill) ==
    IF req_skill["min_experience"] = 0
    THEN Raise("ZeroDivisionError")
    ELSE LET exp_ratio == Min((emp_skill["experience_years"] * Unit) \div req_skill["min_experience"], 2 * Unit)
             emp_level_score == DictGet(level_scores, emp_skill["proficiency_level"], 0)
         IN  Return(Min(exp_ratio * 35, 70 * Unit) + emp_level_score * Unit)

(* _calculate_skill_match_score: the score is value / ScoreDen.  exp_ratio  *)
(* and the experience points are in units of 1/Unit.  Python's / raises    *)
(* ZeroDivisionError on a zero divisor, for int and float alike.            *)
_calculate_skill_match_score(emp_skill, req_skill) ==
    IF req_skill["min_experience"] = 0
    THEN Raise("ZeroDivisionError")
    ELSE LET exp_ratio == Min((emp_skill["experience_years"] * Unit) \div req_skill["min_experience"], 2 * Unit)
             exp_points == Min(exp_ratio * 35, 70 * Unit)
             emp_level_score == DictGet(level_scores, emp_skill["proficiency_level"], 0)
             req_level_score == DictGet(level_scores, req_skill["required_level"], 15)
         IN  Return(exp_points + Min(emp_level_score, req_level_score) * Unit)

-----------------------------------------------------------------------------
(* Dates.  date(y, m, d) is the day's ordinal counted from 2024-01-01 = 1  *)
(* (all dates of the mock data lie in 2024, a leap year); the difference   *)
(* of two dates, (a - b).days, is the difference of their ordinals.        *)
DaysBeforeMonth == <<0, 31, 60, 91, 121, 152, 182, 213, 244, 274, 305, 335>>

date(y, m, d) == 366 * (y - 2024) + DaysBeforeMonth[m] + d

(* None where a date is expected (Optional[date]): no date has ordinal 0.  *)
NoDate == 0

(* date.isoformat(): the text of the date, kept apart from the date.       *)
isoformat(d) == [iso |-> d]

(* str(d) of an Optional[date], as an f-string formats it.                 *)
str_date(d) == IF d = NoDate THEN [none |-> TRUE] ELSE isoformat(d)

(* str.lower() on the skill names that occur.                              *)
lower(s) ==
    CASE s \in {"Java", "java", "JAVA"} -> "java"
      [] s \in {"Spring Boot", "spring boot"} -> "spring boot"
      [] s \in {"React", "react"} -> "react"
      [] s \in {"SQL", "sql", "Sql"} -> "sql"
      [] s \in {"Angular", "angular"} -> "angular"
      [] s \in {"Node.js", "node.js"} -> "node.js"
      [] s \in {"MongoDB", "mongodb"} -> "mongodb"
      [] s \in {"Python", "python"} -> "python"
      [] s \in {"Django", "django"} -> "django"
      [] s \in {"PostgreSQL", "postgresql"} -> "postgresql"
      [] s \in {"AWS", "aws"} -> "aws"
      [] s \in {"JavaScript", "javascript"} -> "javascript"
      [] s \in {"TypeScript", "typescript"} -> "typescript"
      [] OTHER -> s

(* An employee skill; the category field, which nothing reads, is left out. *)
Skill(n, e, l) == [skill_name |-> n, experience_years |-> e, proficiency_level |-> l]

(* A required skill of a requisition.                                       *)
ReqSkill(n, m, l, mand) ==
    [skill_name |-> n, min_experience |-> m, required_level |-> l, is_mandatory |-> mand]

(* Employee; email and current_project, which nothing reads, are left out; *)
(* performance_rating is in tenths.                                         *)
Employee(id, n, status, end, bench, skills, rating, loc) ==
    [employee_id |-> id, name |-> n, current_status |-> status,
     project_end_date |-> end, bench_start_date |-> bench, skills |-> skills,
     performance_rating |-> rating, location |-> loc]

(* Requisition; experience_level and hiring_type, which nothing reads, are *)
(* left out.                                                                *)
Requisition(id, project, role, status, start, required, loc) ==
    [requisition_id |-> id, project_name |-> project, role_title |-> role,
     status |-> status, start_date |-> start, required_skills |-> required,
     location |-> loc]

_load_mock_employees ==
    << Employee("EMP001", "Raj Sharma", "BENCH", NoDate, date(2024, 4, 15),
           << Skill("Java", 6, "EXPERT"), Skill("Spring Boot", 5, "ADVANCED"),
              Skill("React", 2, "INTERMEDIATE"), Skill("SQL", 4, "ADVANCED"),
              Skill("Angular", 1, "BEGINNER") >>, 42, "Pune"),
       Employee("EMP002", "Priya Patel", "TRANSITIONING", date(2024, 6, 30), NoDate,
           << Skill("Java", 7, "EXPERT"), Skill("React", 3, "ADVANCED"),
              Skill("Angular", 4, "ADVANCED"), Skill("Node.js", 2, "INTERMEDIATE"),
              Skill("MongoDB", 3, "ADVANCED") >>, 45, "Bangalore"),
       Employee("EMP003", "Amit Kumar", "ACTIVE", date(2024, 8, 15), NoDate,
           << Skill("Python", 5, "ADVANCED"), Skill("Django", 4, "ADVANCED"),
              Skill("React", 2, "INTERMEDIATE"), Skill("PostgreSQL", 4, "ADVANCED") >>,
           40, "Hyderabad"),
       Employee("EMP004", "Sneha Desai", "BENCH", NoDate, date(2024, 5, 1),
           << Skill("Java", 8, "EXPERT"), Skill("Spring Boot", 6, "EXPERT"),
              Skill("Angular", 5, "ADVANCED"), Skill("SQL", 6, "EXPERT"),
              Skill("AWS", 3, "INTERMEDIATE") >>, 47, "Pune"),
       Employee("EMP005", "Varun Singh", "NOTICE_PERIOD", date(2024, 6, 15), NoDate,
           << Skill("React", 4, "ADVANCED"), Skill("JavaScript", 5, "ADVANCED"),
              Skill("Node.js", 3, "INTERMEDIATE"), Skill("Java", 2, "INTERMEDIATE") >>,
           38, "Chennai") >>

_load_mock_requisitions ==
    << Requisition("REQ001", "Digital Banking Platform", "Full Stack Developer", "OPEN",
           date(2024, 6, 1),
           << ReqSkill("Java", 5, "ADVANCED", TRUE), ReqSkill("Spring Boot", 3, "ADVANCED", TRUE),
              ReqSkill("React", 2, "INTERMEDIATE", TRUE), ReqSkill("SQL", 3, "ADVANCED", FALSE) >>,
           "Pune"),
       Requisition("REQ002", "E-commerce Modernization", "Frontend Lead", "OPEN",
           date(2024, 6, 15),
           << ReqSkill("React", 4, "ADVANCED", TRUE), ReqSkill("Angular", 3, "ADVANCED", TRUE),
              ReqSkill("JavaScript", 5, "EXPERT", TRUE),
              ReqSkill("TypeScript", 2, "INTERMEDIATE", FALSE) >>,
           "Bangalore"),
       Requisition("REQ003", "Healthcare Analytics", "Backend Developer", "OPEN",
           date(2024, 7, 1),
           << ReqSkill("Python", 4, "ADVANCED", TRUE), ReqSkill("Django", 3, "ADVANCED", TRUE),
              ReqSkill("PostgreSQL", 3, "ADVANCED", TRUE),
              ReqSkill("AWS", 2, "INTERMEDIATE", FALSE) >>,
           "Hyderabad"),
       Requisition("REQ004", "Insurance Portal", "Java Full Stack Developer", "OPEN",
           date(2024, 6, 10),
           << ReqSkill("Java", 6, "EXPERT", TRUE), ReqSkill("Spring Boot", 4, "ADVANCED", TRUE),
              ReqSkill("Angular", 3, "ADVANCED", TRUE), ReqSkill("SQL", 4, "ADVANCED", TRUE),
              ReqSkill("React", 2, "INTERMEDIATE", FALSE) >>,
           "Pune") >>

(* _load_skill_ontology: skill name -> category and related skills.       *)
_load_skill_ontology ==
    [Java |-> [category |-> "Backend",
               related_skills |-> <<"Spring Boot", "J2EE", "Microservices">>],
     React |-> [category |-> "Frontend",
                related_skills |-> <<"JavaScript", "TypeScript", "Redux">>],
     Angular |-> [category |-> "Frontend",
                  related_skills |-> <<"TypeScript", "JavaScript", "RxJS">>],
     Python |-> [category |-> "Backend",
                 related_skills |-> <<"Django", "Flask", "FastAPI">>],
     SQL |-> [category |-> "Database",
              related_skills |-> <<"Database Design", "Query Optimization">>]]
    @@ ("Spring Boot" :> [category |-> "Backend",
                          related_skills |-> <<"Java", "Microservices", "REST API">>])

-----------------------------------------------------------------------------
(* Mutant of _check_availability: the days until available clamped at 0.   *)
CheckAvailabilityClamped(employee, requisition) ==
    IF employee["current_status"] = "BENCH"
    THEN Return([status |-> "IMMEDIATELY_AVAILABLE", details |-> <<"On bench">>])
    ELSE IF employee["current_status"] = "NOTICE_PERIOD"
    THEN Return([status |-> "AVAILABLE_SOON",
                 details |-> <<"Notice period ends", str_date(employee["project_end_date"])>>])
    ELSE IF employee["current_status"] = "TRANSITIONING"
    THEN IF employee["project_end_date"] = NoDate
         THEN Raise("TypeError")
         ELSE Return([status |-> "AVAILABLE_SOON",
                      details |-> <<"Available in", Max(0, employee["project_end_date"] - today), "days">>])
    ELSE Return([status |-> "NOT_AVAILABLE", details |-> <<"Currently on active project">>])

(* _check_availability.  The details text is the tuple of its parts, the   *)
(* formatted value in the middle.  None - date raises TypeError.           *)
_check_availability(employee, requisition) ==
    IF employee["current_status"] = "BENCH"
    THEN Return([status |-> "IMMEDIATELY_AVAILABLE", details |-> <<"On bench">>])
    ELSE IF employee["current_status"] = "NOTICE_PERIOD"
    THEN Return([status |-> "AVAILABLE_SOON",
                 details |-> <<"Notice period ends", str_date(employee["project_end_date"])>>])
    ELSE IF employee["current_status"] = "TRANSITIONING"
    THEN IF employee["project_end_date"] = NoDate
         THEN Raise("TypeError")
         ELSE LET days_until_available == employee["project_end_date"] - today
              IN  Return([status |-> "AVAILABLE_SOON",
                          details |-> <<"Available in", days_until_available, "days">>])
    ELSE Return([status |-> "NOT_AVAILABLE", details |-> <<"Currently on active project">>])

(* Mutant: the subtraction the wrong way round.                            *)
BenchDaysReversed(employee) ==
    IF employee["bench_start_date"] # NoDate
    THEN employee["bench_start_date"] - today
    ELSE 0

(* _calculate_bench_days                                                    *)
_calculate_bench_days(employee) ==
    IF employee["bench_start_date"] # NoDate
    THEN today - employee["bench_start_date"]
    ELSE 0

(* next((s for s in skills if s["skill_name"].lower() == name.lower()),    *)
(* None): the index of the first skill of that name, 0 for None.           *)
next_skill(skills, name) ==
    LET hits == {i \in 1..Len(skills) : lower(skills[i]["skill_name"]) = lower(name)}
    IN  IF hits = {} THEN 0 ELSE CHOOSE i \in hits : \A j \in hits : i <= j

(* round(total_score / max_score * 100, 2), in hundredths, for a           *)
(* total_score in units of 1/ScoreDen.  A value exactly half way between   *)
(* two hundredths goes up or down with the floating point error: half_up.  *)
round_2(total_score, max_score, half_up) ==
    LET num == total_score * 10000
        den == ScoreDen * max_score
        q == num \div den
        r == num % den
    IN  IF 2 * r < den THEN q
        ELSE IF 2 * r > den THEN q + 1
        ELSE IF half_up THEN q + 1 ELSE q

-----------------------------------------------------------------------------
(* The requisition matcher.  The loop's accumulator: the running           *)
(* total_score (in units of 1/ScoreDen), the two lists, and the exception  *)
(* a call of the scorer raised, if any.                                    *)
NewMatch == [raised |-> None, total_score |-> 0, skill_matches |-> <<>>, missing_skills |-> <<>>]

(* Mutants of the loop body: the mandatory weight forgotten; a missing     *)
(* skill not recorded.                                                     *)
ReqMatchStepUnweighted(acc, employee, req_skill) ==
    LET i == next_skill(employee["skills"], req_skill["skill_name"])
    IN  IF i # 0
        THEN LET emp_skill == employee["skills"][i]
                 skill_score == _calculate_skill_match_score(emp_skill, req_skill)
             IN  IF skill_score.raised # None
                 THEN [acc EXCEPT !.raised = skill_score.raised]
                 ELSE [acc EXCEPT
                         !.skill_matches = Append(@,
                             [skill |-> req_skill["skill_name"],
                              required_experience |-> req_skill["min_experience"],
                              employee_experience |-> emp_skill["experience_years"],
                              match_score |-> skill_score.value,
                              status |-> "MATCHED"]),
                         !.total_score = @ + skill_score.value]
        ELSE [acc EXCEPT
                !.missing_skills = Append(@,
                    [skill |-> req_skill["skill_name"],
                     required_experience |-> req_skill["min_experience"],
                     required_level |-> req_skill["required_level"],
                     is_mandatory |-> req_skill["is_mandatory"]])]

ReqMatchStepMissingDropped(acc, employee, req_skill) ==
    LET i == next_skill(employee["skills"], req_skill["skill_name"])
    IN  IF i # 0
        THEN LET emp_skill == employee["skills"][i]
                 skill_score == _calculate_skill_match_score(emp_skill, req_skill)
             IN  IF skill_score.raised # None
                 THEN [acc EXCEPT !.raised = skill_score.raised]
                 ELSE [acc EXCEPT
                         !.skill_matches = Append(@,
                             [skill |-> req_skill["skill_name"],
                              required_experience |-> req_skill["min_experience"],
                              employee_experience |-> emp_skill["experience_years"],
                              match_score |-> skill_score.value,
                              status |-> "MATCHED"]),
                         !.total_score = @ + skill_score.value
                                             * (IF req_skill["is_mandatory"] THEN 2 ELSE 1)]
        ELSE acc

(* One pass of the loop over requisition.required_skills.                  *)
req_match_step(acc, employee, req_skill) ==
    LET i == next_skill(employee["skills"], req_skill["skill_name"])
    IN  IF i # 0
        THEN LET emp_skill == employee["skills"][i]
                 skill_score == _calculate_skill_match_score(emp_skill, req_skill)
             IN  IF skill_score.raised # None
                 THEN [acc EXCEPT !.raised = skill_score.raised]
                 ELSE [acc EXCEPT
                         !.skill_matches = Append(@,
                             [skill |-> req_skill["skill_name"],
                              required_experience |-> req_skill["min_experience"],
                              employee_experience |-> emp_skill["experience_years"],
                              match_score |-> skill_score.value,
                              status |-> "MATCHED"]),
                         !.total_score = @ + skill_score.value
                                             * (IF req_skill["is_mandatory"] THEN 2 ELSE 1)]
        ELSE [acc EXCEPT
                !.missing_skills = Append(@,
                    [skill |-> req_skill["skill_name"],
                     required_experience |-> req_skill["min_experience"],
                     required_level |-> req_skill["required_level"],
                     is_mandatory |-> req_skill["is_mandatory"]])]

(* The loop, from required skill i on; it ends at the first exception.     *)
RECURSIVE req_match_loop(_, _, _, _)
req_match_loop(acc, employee, required_skills, i) ==
    IF i > Len(required_skills) \/ acc.raised # None
    THEN acc
    ELSE req_match_loop(req_match_step(acc, employee, required_skills[i]),
                        employee, required_skills, i + 1)

(* Mutant of max_score: every required skill counted once.                 *)
MaxScoreUnweighted(required_skills) == Len(required_skills)

(* Mutant of max_score: every required skill counted twice.                *)
MaxScoreAllMandatory(required_skills) == 2 * Len(required_skills)

(* max_score: 2 for each mandatory skill, 1 for each other.                *)
max_score(required_skills) ==
    2 * Cardinality({i \in 1..Len(required_skills) : required_skills[i]["is_mandatory"]})
    + Cardinality({i \in 1..Len(required_skills) : ~required_skills[i]["is_mandatory"]})

(* Mutant of the normalisation: a perfect score when nothing is required.  *)
NormalizedScoreDefault100(total_score, max, half_up) ==
    IF max > 0 THEN round_2(total_score, max, half_up) ELSE 10000

(* round(normalized_score, 2), in hundredths, with                         *)
(* normalized_score = (total_score / max_score * 100) if max_score > 0     *)
(* else 0.                                                                 *)
normalized_score(total_score, max, half_up) ==
    IF max > 0 THEN round_2(total_score, max, half_up) ELSE 0

(* _calculate_employee_requisition_match.  total_score is in hundredths.   *)
_calculate_employee_requisition_match(employee, requisition, half_up) ==
    LET acc == req_match_loop(NewMatch, employee, requisition["required_skills"], 1)
        availability == _check_availability(employee, requisition)
    IN  IF acc.raised # None THEN Raise(acc.raised)
        ELSE IF availability.raised # None THEN Raise(availability.raised)
        ELSE Return(
            [requisition_id |-> requisition["requisition_id"],
             project_name |-> requisition["project_name"],
             role_title |-> requisition["role_title"],
             location |-> requisition["location"],
             start_date |-> isoformat(requisition["start_date"]),
             total_score |-> normalized_score(acc.total_score,
                                 max_score(requisition["required_skills"]), half_up),
             skill_matches |-> acc.skill_matches,
             missing_skills |-> acc.missing_skills,
             availability_status |-> availability.value])

-----------------------------------------------------------------------------
(* The skill-set matcher (manager search).                                  *)

(* One pass of the loop over requirements.                                  *)
skill_match_step(acc, employee, req) ==
    LET i == next_skill(employee["skills"], req["skill_name"])
    IN  IF i # 0
        THEN LET emp_skill == employee["skills"][i]
                 skill_score == _calculate_skill_match_score(emp_skill, req)
             IN  IF skill_score.raised # None
                 THEN [acc EXCEPT !.raised = skill_score.raised]
                 ELSE [acc EXCEPT
                         !.skill_matches = Append(@,
                             [skill |-> req["skill_name"],
                              required_experience |-> req["min_experience"],
                              employee_experience |-> emp_skill["experience_years"],
                              employee_level |-> emp_skill["proficiency_level"],
                              match_score |-> skill_score.value]),
                         !.total_score = @ + skill_score.value]
        ELSE [acc EXCEPT
                !.missing_skills = Append(@,
                    [skill |-> req["skill_name"],
                     required_experience |-> req["min_experience"],
                     required_level |-> req["required_level"]])]

RECURSIVE skill_match_loop(_, _, _, _)
skill_match_loop(acc, employee, requirements, i) ==
    IF i > Len(requirements) \/ acc.raised # None
    THEN acc
    ELSE skill_match_loop(skill_match_step(acc, employee, requirements[i]),
                          employee, requirements, i + 1)

(* Mutant: the sum of the scores is not divided by the number of           *)
(* requirements.                                                           *)
SkillNormalizedUndivided(total_score, requirements, half_up) ==
    IF Len(requirements) > 0 THEN round_2(total_score, 1, half_up) ELSE 0

(* round(normalized_score, 2), in hundredths, with normalized_score =      *)
(* (total_score / len(requirements)) * 100 if requirements else 0.         *)
skill_normalized_score(total_score, requirements, half_up) ==
    IF Len(requirements) > 0 THEN round_2(total_score, Len(requirements), half_up) ELSE 0

(* _calculate_employee_skill_match.  total_score is in hundredths;         *)
(* matched_skills is the accumulator's skill_matches.                      *)
_calculate_employee_skill_match(employee, requirements, half_up) ==
    LET acc == skill_match_loop(NewMatch, employee, requirements, 1)
    IN  IF acc.raised # None THEN Raise(acc.raised)
        ELSE Return(
            [employee_id |-> employee["employee_id"],
             employee_name |-> employee["name"],
             current_status |-> employee["current_status"],
             location |-> employee["location"],
             performance_rating |-> employee["performance_rating"],
             total_score |-> skill_normalized_score(acc.total_score, requirements, half_up),
             matched_skills |-> acc.skill_matches,
             missing_skills |-> acc.missing_skills,
             bench_days |-> IF employee["bench_start_date"] # NoDate
                            THEN _calculate_bench_days(employee) ELSE 0])

-----------------------------------------------------------------------------
(* Query text.  A str that the code searches is the sequence of its        *)
(* characters; chars(s) is the text of the literal s.                      *)
chars(s) ==
    CASE s = "java" -> <<"j", "a", "v", "a">>
      [] s = "react" -> <<"r", "e", "a", "c", "t">>
      [] s = "angular" -> <<"a", "n", "g", "u", "l", "a", "r">>
      [] s = "python" -> <<"p", "y", "t", "h", "o", "n">>
      [] s = "sql" -> <<"s", "q", "l">>
      [] s = "spring" -> <<"s", "p", "r", "i", "n", "g">>
      [] s = "node" -> <<"n", "o", "d", "e">>
      [] s = "aws" -> <<"a", "w", "s">>
      [] s = "2" -> <<"2">>
      [] s = "3" -> <<"3">>
      [] s = "open positions" ->
           <<"o", "p", "e", "n", " ", "p", "o", "s", "i", "t", "i", "o", "n", "s">>
      [] s = "find jobs" -> <<"f", "i", "n", "d", " ", "j", "o", "b", "s">>
      [] s = "opportunities" -> <<"o", "p", "p", "o", "r", "t", "u", "n", "i", "t", "i", "e", "s">>
      [] s = "check position" ->
           <<"c", "h", "e", "c", "k", " ", "p", "o", "s", "i", "t", "i", "o", "n">>
      [] s = "specific skills" ->
           <<"s", "p", "e", "c", "i", "f", "i", "c", " ", "s", "k", "i", "l", "l", "s">>
      [] s = "find employees" ->
           <<"f", "i", "n", "d", " ", "e", "m", "p", "l", "o", "y", "e", "e", "s">>
      [] s = "search resources" ->
           <<"s", "e", "a", "r", "c", "h", " ", "r", "e", "s", "o", "u", "r", "c", "e", "s">>
      [] s = "java react angular" ->
           <<"j", "a", "v", "a", " ", "r", "e", "a", "c", "t", " ", "a", "n", "g", "u", "l", "a", "r">>
      [] s = "Java" -> <<"J", "a", "v", "a">>
      [] s = "REACT" -> <<"R", "E", "A", "C", "T">>
      [] s = "Angular" -> <<"A", "n", "g", "u", "l", "a", "r">>
      [] s = "2+ years" -> <<"2", "+", " ", "y", "e", "a", "r", "s">>
      [] s = "3+ years" -> <<"3", "+", " ", "y", "e", "a", "r", "s">>
      [] s = "PostgreSQL" -> <<"P", "o", "s", "t", "g", "r", "e", "S", "Q", "L">>
      [] s = "Python" -> <<"P", "y", "t", "h", "o", "n">>
      [] s = "Spring" -> <<"S", "p", "r", "i", "n", "g">>
      [] s = "Node" -> <<"N", "o", "d", "e">>
      [] s = "AWS" -> <<"A", "W", "S">>
      [] s = "SQL" -> <<"S", "Q", "L">>
      [] s = "Open Positions for" ->
           <<"O", "p", "e", "n", " ", "P", "o", "s", "i", "t", "i", "o", "n", "s", " ", "f", "o", "r">>
      [] s = "Find Jobs for" -> <<"F", "i", "n", "d", " ", "J", "o", "b", "s", " ", "f", "o", "r">>
      [] s = "Opportunities for" ->
           <<"O", "p", "p", "o", "r", "t", "u", "n", "i", "t", "i", "e", "s", " ", "f", "o", "r">>
      [] s = "Check Position for" ->
           <<"C", "h", "e", "c", "k", " ", "P", "o", "s", "i", "t", "i", "o", "n", " ", "f", "o", "r">>
      [] s = "Specific Skills:" ->
           <<"S", "p", "e", "c", "i", "f", "i", "c", " ", "S", "k", "i", "l", "l", "s", ":">>
      [] s = "Find Employees with" ->
           <<"F", "i", "n", "d", " ", "E", "m", "p", "l", "o", "y", "e", "e", "s", " ", "w", "i", "t", "h">>
      [] s = "Search Resources:" ->
           <<"S", "e", "a", "r", "c", "h", " ", "R", "e", "s", "o", "u", "r", "c", "e", "s", ":">>
      [] s = "Java React Angular" ->
           <<"J", "a", "v", "a", " ", "R", "e", "a", "c", "t", " ", "A", "n", "g", "u", "l", "a", "r">>
      [] s = "position" -> <<"p", "o", "s", "i", "t", "i", "o", "n">>
      [] s = "job" -> <<"j", "o", "b">>
      [] s = "opportunity" -> <<"o", "p", "p", "o", "r", "t", "u", "n", "i", "t", "y">>
      [] s = "role" -> <<"r", "o", "l", "e">>
      [] s = "project" -> <<"p", "r", "o", "j", "e", "c", "t">>
      [] s = "skill" -> <<"s", "k", "i", "l", "l">>
      [] s = "training" -> <<"t", "r", "a", "i", "n", "i", "n", "g">>
      [] s = "learn" -> <<"l", "e", "a", "r", "n">>
      [] s = "improve" -> <<"i", "m", "p", "r", "o", "v", "e">>
      [] s = "find" -> <<"f", "i", "n", "d">>
      [] s = "search" -> <<"s", "e", "a", "r", "c", "h">>
      [] s = "employee" -> <<"e", "m", "p", "l", "o", "y", "e", "e">>
      [] s = "resource" -> <<"r", "e", "s", "o", "u", "r", "c", "e">>
      [] s = "staff" -> <<"s", "t", "a", "f", "f">>
      [] s = "Find open positions" ->
           <<"F", "i", "n", "d", " ", "o", "p", "e", "n", " ", "p", "o", "s", "i", "t", "i", "o", "n", "s">>
      [] s = "Any job for me" ->
           <<"A", "n", "y", " ", "j", "o", "b", " ", "f", "o", "r", " ", "m", "e">>
      [] s = "Improve my skills" ->
           <<"I", "m", "p", "r", "o", "v", "e", " ", "m", "y", " ", "s", "k", "i", "l", "l", "s">>
      [] s = "Find employees with Java" ->
           <<"F", "i", "n", "d", " ", "e", "m", "p", "l", "o", "y", "e", "e", "s", " ", "w", "i", "t", "h", " ", "J", "a", "v", "a">>
      [] s = "Hello" -> <<"H", "e", "l", "l", "o">>
      [] s = "" -> <<>>

Uppercase ==
    <<"A", "B", "C", "D", "E", "F", "G", "H", "I", "J", "K", "L", "M",
       "N", "O", "P", "Q", "R", "S", "T", "U", "V", "W", "X", "Y", "Z">>
Lowercase ==
    <<"a", "b", "c", "d", "e", "f", "g", "h", "i", "j", "k", "l", "m",
       "n", "o", "p", "q", "r", "s", "t", "u", "v", "w", "x", "y", "z">>

(* str.lower(), character by character.                                    *)
lower_char(c) ==
    IF \E i \in 1..Len(Uppercase) : Uppercase[i] = c
    THEN Lowercase[CHOOSE i \in 1..Len(Uppercase) : Uppercase[i] = c]
    ELSE c

str_lower(text) == [i \in 1..Len(text) |-> lower_char(text[i])]

(* needle in text, for two str.                                            *)
contains(needle, text) ==
    \E i \in 1..(Len(text) - Len(needle) + 1) :
        SubSeq(text, i, i + Len(needle) - 1) = needle

(* An ad-hoc requirement, as the parser builds it.                         *)
Requirement(n, m, l) == [skill_name |-> n, min_experience |-> m, required_level |-> l]

(* Mutant: React is parsed without looking for the digit 2.                *)
ParseReactWithoutDigit(query) ==
    LET q == str_lower(query)
    IN  (IF contains(chars("java"), q)
         THEN <<Requirement("Java", 5, "ADVANCED")>> ELSE <<>>)
        \o (IF contains(chars("react"), q)
            THEN <<Requirement("React", 2, "INTERMEDIATE")>> ELSE <<>>)
        \o (IF contains(chars("angular"), q) /\ contains(chars("3"), query)
            THEN <<Requirement("Angular", 3, "ADVANCED")>> ELSE <<>>)
        \o (IF contains(chars("sql"), q)
            THEN <<Requirement("SQL", 1, "INTERMEDIATE")>> ELSE <<>>)

(* _parse_skill_requirements: the four ifs, each appending to the list.    *)
_parse_skill_requirements(query) ==
    LET q == str_lower(query)
    IN  (IF contains(chars("java"), q)
         THEN <<Requirement("Java", 5, "ADVANCED")>> ELSE <<>>)
        \o (IF contains(chars("react"), q) /\ contains(chars("2"), query)
            THEN <<Requirement("React", 2, "INTERMEDIATE")>> ELSE <<>>)
        \o (IF contains(chars("angular"), q) /\ contains(chars("3"), query)
            THEN <<Requirement("Angular", 3, "ADVANCED")>> ELSE <<>>)
        \o (IF contains(chars("sql"), q)
            THEN <<Requirement("SQL", 1, "INTERMEDIATE")>> ELSE <<>>)

-----------------------------------------------------------------------------
(* The public methods.  A method runs on the service object self and gives *)
(* an Outcome: what it returned or raised, the service object it leaves    *)
(* behind, and the ids it called a matcher on, in call order (scored).     *)
(*                                                                         *)
(* Where a local variable of the code is read many times, its value is     *)
(* bound once, as the element x of a singleton set:  the one element of    *)
(* {f(x) : x \in {value}}  is f(value).                                     *)

Self(emps, reqs, ontology) ==
    [employees |-> emps, requisitions |-> reqs, skill_ontology |-> ontology]

Outcome(r, self, scored) ==
    [raised |-> r.raised, value |-> r.value, self |-> self, scored |-> scored]

(* The index of the first call that raised, 0 if none did.                 *)
first_raised(results) ==
    LET hits == {i \in 1..Len(results) : results[i].raised # None}
    IN  IF hits = {} THEN 0 ELSE CHOOSE i \in hits : \A j \in hits : i <= j

(* The values the calls returned.                                          *)
values(results) == [i \in 1..Len(results) |-> results[i].value]

(* Mutant: every requisition that is not closed counts as open.            *)
IsNotClosed(req) == req["status"] # "CLOSED"

(* not (req.status != "OPEN")                                              *)
IsOpen(req) == req["status"] = "OPEN"

(* Mutant: every employee but the active ones is searched.                 *)
IsNotActive(employee) == employee["current_status"] # "ACTIVE"

(* not (employee.current_status not in [...])                              *)
IsAvailable(employee) ==
    employee["current_status"] \in {"BENCH", "TRANSITIONING", "NOTICE_PERIOD"}

(* Mutant: only a negative score is dropped.                               *)
NotNegative(match_result) == match_result["total_score"] >= 0

(* match_result["total_score"] > 0                                         *)
positive(match_result) == match_result["total_score"] > 0

(* Mutant: the list is sorted ascending and then reversed, which reverses  *)
(* the matches of equal score.                                             *)
StaysAheadStrict(a, x) == a["total_score"] > x["total_score"]

(* list.sort(key=lambda x: x["total_score"], reverse=True) is stable: a    *)
(* match stays ahead of a later one unless its score is lower.             *)
stays_ahead(a, x) == a["total_score"] >= x["total_score"]

(* x put behind the matches of the sorted list that stay ahead of it.      *)
insert_by_score(sorted, x) ==
    LET ahead == {i \in 1..Len(sorted) : \A j \in 1..i : stays_ahead(sorted[j], x)}
    IN  SubSeq(sorted, 1, Cardinality(ahead)) \o <<x>>
        \o SubSeq(sorted, Cardinality(ahead) + 1, Len(sorted))

(* The first n matches, sorted.                                            *)
RECURSIVE sorted_prefix(_, _)
sorted_prefix(matches, n) ==
    IF n = 0 THEN <<>>
    ELSE CHOOSE r \in {insert_by_score(sorted, matches[n]) :
                          sorted \in {sorted_prefix(matches, n - 1)}} : TRUE

(* matches.sort(key=lambda x: x["total_score"], reverse=True)              *)
sort_by_total_score(matches) == sorted_prefix(matches, Len(matches))

(* Mutant: the top 3 instead of the top 5.                                 *)
TopThree(matches) == SubSeq(matches, 1, Min(3, Len(matches)))

(* matches[:5]                                                             *)
top_matches(matches) == SubSeq(matches, 1, Min(5, Len(matches)))

(* _get_training_suggestions; a text an f-string builds is the tuple of    *)
(* its parts, and so every suggestion is a tuple.                          *)
training_map ==
    [Java |-> << <<"Java Certification">>, <<"Spring Boot Fundamentals">>,
                 <<"Microservices Architecture">> >>,
     React |-> << <<"React Advanced Patterns">>, <<"State Management with Redux">>,
                  <<"React Testing">> >>,
     Angular |-> << <<"Angular Framework Deep Dive">>, <<"RxJS Fundamentals">>,
                    <<"Angular Performance">> >>,
     Python |-> << <<"Python for Web Development">>, <<"Django REST Framework">>,
                   <<"Python Design Patterns">> >>,
     SQL |-> << <<"Advanced SQL Queries">>, <<"Database Optimization">>,
                <<"SQL Performance Tuning">> >>]

_get_training_suggestions(skill) ==
    DictGet(training_map, skill,
            << <<skill, "Fundamentals">>, <<"Advanced", skill, "Concepts">> >>)

IsMandatory(missing_skill) == missing_skill["is_mandatory"]

(* The recommendation appended for one missing mandatory skill.            *)
recommendation(missing_skill) ==
    [skill |-> missing_skill["skill"],
     required_experience |-> missing_skill["required_experience"],
     required_level |-> missing_skill["required_level"],
     priority |-> "HIGH",
     suggested_training |-> _get_training_suggestions(missing_skill["skill"])]

(* The recommendations of the first n matches, in order.                   *)
RECURSIVE recommendations_of(_, _)
recommendations_of(matches, n) ==
    IF n = 0 THEN <<>>
    ELSE LET missing == SelectSeq(matches[n]["missing_skills"], IsMandatory)
         IN  recommendations_of(matches, n - 1)
             \o [i \in 1..Len(missing) |-> recommendation(missing[i])]

(* Remove duplicates: the recommendations whose skill no earlier one has,  *)
(* in order.                                                               *)
unique_recommendations(recommendations) ==
    LET first == {i \in 1..Len(recommendations) :
                     \A j \in 1..(i - 1) :
                         recommendations[j]["skill"] # recommendations[i]["skill"]}
    IN  [k \in 1..Cardinality(first) |->
            recommendations[CHOOSE i \in first :
                               Cardinality({j \in first : j <= i}) = k]]

(* Mutant: the recommendations are drawn from every match.                 *)
RecommendationsFromAllMatches(employee, matches) ==
    CHOOSE r \in {unique_recommendations(recommendations) :
                     recommendations \in {recommendations_of(matches, Len(matches))}} :
        TRUE

(* _generate_skill_recommendations: from matches[:3].                      *)
_generate_skill_recommendations(employee, matches) ==
    CHOOSE r \in {unique_recommendations(recommendations) :
                     recommendations \in {recommendations_of(matches, Min(3, Len(matches)))}} :
        TRUE

(* _analyze_skill_gaps_for_query                                           *)
_analyze_skill_gaps_for_query(employee, query_skills) ==
    LET Missing(skill) ==
            ~ \E i \in 1..Len(employee["skills"]) :
                lower(employee["skills"][i]["skill_name"]) = skill
        missing == SelectSeq(query_skills, Missing)
        gaps == [i \in 1..Len(missing) |->
                    [skill |-> missing[i],
                     status |-> "MISSING",
                     recommendation |->
                         <<"Consider learning", missing[i], "to expand opportunities">>,
                     priority |-> "MEDIUM"]]
    IN  [skill_gaps |-> gaps, total_gaps |-> Len(gaps)]

(* Mutant: a match scored exactly 80 does not count as high.               *)
IsHighAbove80(m) == m["total_score"] > 8000

(* The score bands of the summary; total_score is in hundredths.           *)
IsHigh(m) == m["total_score"] >= 8000
IsMedium(m) == 5000 <= m["total_score"] /\ m["total_score"] < 8000
IsLow(m) == m["total_score"] < 5000

(* Mutant: the medium matches are looked at before the high ones.          *)
StaffingRecommendationMediumFirst(matches, requirements) ==
    IF matches = <<>>
    THEN <<"No suitable internal candidates found. Consider external hiring.">>
    ELSE IF Len(SelectSeq(matches, IsMedium)) > 0
    THEN <<"Found", Len(SelectSeq(matches, IsMedium)),
           "potential matches with some skill gaps. Consider training or external backup.">>
    ELSE IF Len(SelectSeq(matches, IsHigh)) > 0
    THEN <<"Found", Len(SelectSeq(matches, IsHigh)),
           "excellent matches. Recommend proceeding with internal hiring.">>
    ELSE <<"Limited internal matches. Strongly recommend external hiring with internal backup plan.">>

(* _get_staffing_recommendation                                            *)
_get_staffing_recommendation(matches, requirements) ==
    IF matches = <<>>
    THEN <<"No suitable internal candidates found. Consider external hiring.">>
    ELSE IF Len(SelectSeq(matches, IsHigh)) > 0
    THEN <<"Found", Len(SelectSeq(matches, IsHigh)),
           "excellent matches. Recommend proceeding with internal hiring.">>
    ELSE IF Len(SelectSeq(matches, IsMedium)) > 0
    THEN <<"Found", Len(SelectSeq(matches, IsMedium)),
           "potential matches with some skill gaps. Consider training or external backup.">>
    ELSE <<"Limited internal matches. Strongly recommend external hiring with internal backup plan.">>

(* _generate_search_summary                                                *)
_generate_search_summary(matches, requirements) ==
    [total_employees |-> Len(matches),
     high_matches |-> Len(SelectSeq(matches, IsHigh)),
     medium_matches |-> Len(SelectSeq(matches, IsMedium)),
     low_matches |-> Len(SelectSeq(matches, IsLow)),
     recommendation |-> _get_staffing_recommendation(matches, requirements)]

(* The loop over the requisitions reqs from the i-th on: the results of    *)
(* _calculate_employee_requisition_match, up to the first that raises.     *)
RECURSIVE match_requisitions(_, _, _, _)
match_requisitions(employee, reqs, half_up, i) ==
    IF i > Len(reqs) THEN <<>>
    ELSE CHOOSE r \in
             {IF match_result.raised # None THEN <<match_result>>
              ELSE <<match_result>> \o match_requisitions(employee, reqs, half_up, i + 1) :
                 match_result \in
                     {_calculate_employee_requisition_match(employee, reqs[i], half_up)}} :
             TRUE

(* The ids of the first n of a list of requisitions or employees.          *)
ids(list, key, n) == [i \in 1..n |-> list[i][key]]

(* find_positions_for_employee after its loop, whose calls on the open     *)
(* requisitions gave results.                                              *)
positions_response(self, employee, open, results) ==
    IF first_raised(results) # 0
    THEN Outcome(results[Len(results)], self, ids(open, "requisition_id", Len(results)))
    ELSE CHOOSE out \in
             {Outcome(Return(
                  [employee |-> employee["name"],
                   current_status |-> employee["current_status"],
                   total_matches |-> Len(matches),
                   matches |-> top_matches(matches),
                   recommendations |-> _generate_skill_recommendations(employee, matches)]),
                  self, ids(open, "requisition_id", Len(results))) :
                 matches \in {sort_by_total_score(SelectSeq(values(results), positive))}} :
             TRUE

(* find_positions_for_employee                                             *)
find_positions_for_employee(self, employee, half_up) ==
    CHOOSE out \in
        {positions_response(self, employee, open,
                            match_requisitions(employee, open, half_up, 1)) :
            open \in {SelectSeq(self.requisitions, IsOpen)}} :
        TRUE

skill_keywords == <<"java", "react", "angular", "python", "sql", "spring", "node", "aws">>

(* The keywords found in query.lower(), in the order of skill_keywords.    *)
query_skills_of(query) ==
    LET InQuery(skill) == contains(chars(skill), str_lower(query))
    IN  SelectSeq(skill_keywords, InQuery)

(* any(skill in req_skills for skill in query_skills): a query skill is    *)
(* an element of the list of the lower-cased required skill names.         *)
mentions_any(req, query_skills) ==
    \E i \in 1..Len(query_skills) :
        \E j \in 1..Len(req["required_skills"]) :
            query_skills[i] = lower(req["required_skills"][j]["skill_name"])

(* find_positions_with_specific_skills from the loop over the requisitions *)
(* on, for a non-empty query_skills.                                       *)
positions_for_skills(self, employee, query_skills, half_up) ==
    LET Filtered(req) == IsOpen(req) /\ mentions_any(req, query_skills)
    IN  CHOOSE out \in
            {IF first_raised(results) # 0
             THEN Outcome(results[Len(results)], self,
                          ids(filtered, "requisition_id", Len(results)))
             ELSE Outcome(Return(
                      [employee |-> employee["name"],
                       searched_skills |-> query_skills,
                       matching_positions |-> sort_by_total_score(values(results)),
                       skill_gap_analysis |->
                           _analyze_skill_gaps_for_query(employee, query_skills)]),
                      self, ids(filtered, "requisition_id", Len(results))) :
                <<filtered, results>> \in
                    {<<f, match_requisitions(employee, f, half_up, 1)>> :
                        f \in {SelectSeq(self.requisitions, Filtered)}}} :
            TRUE

(* Mutant: the search goes on with an empty query_skills.                  *)
FindPositionsUnguarded(self, employee, query, half_up) ==
    CHOOSE out \in {positions_for_skills(self, employee, query_skills, half_up) :
                       query_skills \in {query_skills_of(query)}} : TRUE

(* find_positions_with_specific_skills                                     *)
find_positions_with_specific_skills(self, employee, query, half_up) ==
    CHOOSE out \in
        {IF query_skills = <<>>
         THEN Outcome(Return(
                  [response |-> "Please specify which skills you want to check positions for. For example: 'Check positions for Java and React skills'",
                   employee |-> employee["name"]]),
                  self, <<>>)
         ELSE positions_for_skills(self, employee, query_skills, half_up) :
            query_skills \in {query_skills_of(query)}} :
        TRUE

(* The loop over the employees emps from the i-th on: the results of       *)
(* _calculate_employee_skill_match, up to the first that raises.           *)
RECURSIVE match_employees(_, _, _, _)
match_employees(emps, requirements, half_up, i) ==
    IF i > Len(emps) THEN <<>>
    ELSE CHOOSE r \in
             {IF match_result.raised # None THEN <<match_result>>
              ELSE <<match_result>> \o match_employees(emps, requirements, half_up, i + 1) :
                 match_result \in
                     {_calculate_employee_skill_match(emps[i], requirements, half_up)}} :
             TRUE

(* find_employees_by_skills after its loop, whose calls on the available   *)
(* employees gave results; store is the service object it leaves behind.   *)
employees_response(store, requirements, available, results) ==
    IF first_raised(results) # 0
    THEN Outcome(results[Len(results)], store, ids(available, "employee_id", Len(results)))
    ELSE CHOOSE out \in
             {Outcome(Return(
                  [search_criteria |-> requirements,
                   total_employees_found |-> Len(matches),
                   matches |-> matches,
                   summary |-> _generate_search_summary(matches, requirements)]),
                  store, ids(available, "employee_id", Len(results))) :
                 matches \in {sort_by_total_score(SelectSeq(values(results), positive))}} :
             TRUE

(* Mutant: the employees that are not available are dropped from           *)
(* self.employees instead of being skipped.                                *)
EmployeesFilteredInPlace(self, requirements, half_up) ==
    CHOOSE out \in
        {employees_response([self EXCEPT !.employees = available], requirements, available,
                            match_employees(available, requirements, half_up, 1)) :
            available \in {SelectSeq(self.employees, IsAvailable)}} :
        TRUE

(* find_employees_by_skills from the loop over the employees on, for a     *)
(* non-empty requirements.                                                 *)
employees_for_requirements(self, requirements, half_up) ==
    CHOOSE out \in
        {employees_response(self, requirements, available,
                            match_employees(available, requirements, half_up, 1)) :
            available \in {SelectSeq(self.employees, IsAvailable)}} :
        TRUE

(* Mutant: the search goes on with an empty requirements.                  *)
FindEmployeesUnguarded(self, query, half_up) ==
    CHOOSE out \in {employees_for_requirements(self, requirements, half_up) :
                       requirements \in {_parse_skill_requirements(query)}} : TRUE

(* find_employees_by_skills                                                *)
find_employees_by_skills(self, query, half_up) ==
    CHOOSE out \in
        {IF requirements = <<>>
         THEN Outcome(Return(
                  [error |-> "Please specify skill requirements. Example: 'Find employees with Java 5+ years, React 2+ years, Angular 3+ years'"]),
                  self, <<>>)
         ELSE employees_for_requirements(self, requirements, half_up) :
            requirements \in {_parse_skill_requirements(query)}} :
        TRUE

(* next((emp for emp in self.employees if emp.employee_id == employee_id), *)
(* None): the index of the first employee of that id, 0 for None.          *)
next_employee(emps, employee_id) ==
    LET hits == {i \in 1..Len(emps) : emps[i]["employee_id"] = employee_id}
    IN  IF hits = {} THEN 0 ELSE CHOOSE i \in hits : \A j \in hits : i <= j

(* process_employee_query once the employee is found.                      *)
dispatch_employee_query(self, employee, query, half_up) ==
    LET q == str_lower(query)
    IN  IF \/ contains(chars("open positions"), q)
           \/ contains(chars("find jobs"), q)
           \/ contains(chars("opportunities"), q)
        THEN find_positions_for_employee(self, employee, half_up)
        ELSE IF \/ contains(chars("check position"), q)
                \/ contains(chars("specific skills"), q)
        THEN find_positions_with_specific_skills(self, employee, query, half_up)
        ELSE Outcome(Return(
                 [response |-> "I can help you with: 1. Finding open positions matching your skills 2. Checking positions for specific skills 3. Skill upgrade recommendations How can I assist you?",
                  employee |-> employee["name"],
                  status |-> employee["current_status"]]),
                 self, <<>>)

(* Mutant: an employee that is not found is the first of the store.        *)
ProcessEmployeeQueryDefaultsToFirst(self, employee_id, query, half_up) ==
    CHOOSE out \in
        {dispatch_employee_query(self, self.employees[IF i = 0 THEN 1 ELSE i], query, half_up) :
            i \in {next_employee(self.employees, employee_id)}} :
        TRUE

(* process_employee_query                                                  *)
process_employee_query(self, employee_id, query, half_up) ==
    CHOOSE out \in
        {IF i = 0
         THEN Outcome(Return([error |-> "Employee not found"]), self, <<>>)
         ELSE dispatch_employee_query(self, self.employees[i], query, half_up) :
            i \in {next_employee(self.employees, employee_id)}} :
        TRUE

(* process_manager_query                                                   *)
process_manager_query(self, user_role, query, half_up) ==
    LET q == str_lower(query)
    IN  IF \/ contains(chars("find employees"), q)
           \/ contains(chars("search resources"), q)
           \/ contains(chars("java react angular"), q)
        THEN find_employees_by_skills(self, query, half_up)
        ELSE Outcome(Return(
                 [response |-> "I can help you find employees with specific skill sets. Please specify the skills and experience levels you're looking for.",
                  user_role |-> user_role]),
                 self, <<>>)

-----------------------------------------------------------------------------
(* The LLM-backed variant, src/tfo_llm_chatbot.py (GenAIChatbot).  What a  *)
(* call of the model gives is an input: the call fails (the client raises, *)
(* or json.loads raises on the reply), or it gives a reply, whose content  *)
(* is the parsed JSON, or the text where no JSON is asked for.             *)
Failed == [ok |-> FALSE]
Replied(content) == [ok |-> TRUE, content |-> content]

(* The methods class GenAIChatbot defines.                                 *)
GenAIChatbot ==
    {"__init__", "_load_mock_employees", "_load_mock_requisitions", "_load_skill_ontology",
     "select_agent", "_fallback_agent_selection", "process_query", "_gather_context_data",
     "_fallback_data_gathering", "_process_employee_advisor", "_process_staffing_consultant",
     "_parse_skill_requirements_ai", "_find_employee_matches_ai", "_find_enhanced_matches",
     "_generate_ai_recommendations", "_extract_action_items", "_fallback_employee_processing",
     "_fallback_staffing_processing", "_fallback_employee_matching",
     "_calculate_employee_skill_match", "_calculate_employee_requisition_match",
     "_calculate_skill_match_score", "_check_availability", "_generate_skill_recommendations",
     "_generate_staffing_summary"}

(* self.<name>: the method of that name, and AttributeError for a name the *)
(* class does not define (the class has no base class and no __getattr__). *)
(* A call of a method that is not defined ends as its lookup does.         *)
getattr(name) ==
    IF name \in GenAIChatbot THEN Return(name) ELSE Raise("AttributeError")

(* any(term in query_lower for term in terms)                              *)
any_term(terms, query_lower) ==
    \E i \in 1..Len(terms) : contains(chars(terms[i]), query_lower)

(* _fallback_agent_selection; confidence is in tenths.                     *)
_fallback_agent_selection(query, user_role) ==
    LET query_lower == str_lower(query)
    IN  IF /\ user_role \in {"EMPLOYEE", "CONSULTANT"}
           /\ any_term(<<"position", "job", "opportunity", "role", "project">>, query_lower)
        THEN [selected_agent |-> "employee_advisor", confidence |-> 8,
              reasoning |-> "Employee seeking positions"]
        ELSE IF /\ user_role \in {"EMPLOYEE", "CONSULTANT"}
                /\ any_term(<<"skill", "training", "learn", "improve">>, query_lower)
        THEN [selected_agent |-> "skill_analyst", confidence |-> 7,
              reasoning |-> "Skill-related query"]
        ELSE IF /\ user_role \in {"MANAGER", "TSC_CONSULTANT"}
                /\ any_term(<<"find", "search", "employee", "resource", "staff">>, query_lower)
        THEN [selected_agent |-> "staffing_consultant", confidence |-> 9,
              reasoning |-> "Staffing search query"]
        ELSE [selected_agent |-> "general_assistant", confidence |-> 6,
              reasoning |-> "General query"]

(* select_agent: the reply of the model as it is, or the fallback.         *)
select_agent(reply, query, user_role) ==
    IF reply.ok THEN reply.content ELSE _fallback_agent_selection(query, user_role)

(* _fallback_data_gathering.  A dict is a function on its keys; an         *)
(* employee of the context is its place in self.employees, 0 for None.     *)
_fallback_data_gathering(self, query, user_role, employee_id) ==
    IF user_role \in {"EMPLOYEE", "CONSULTANT"}
    THEN (IF employee_id # None
          THEN [employee |-> next_employee(self.employees, employee_id)]
          ELSE <<>>)
         @@ [requisitions |-> SelectSeq(self.requisitions, IsOpen)]
    ELSE IF /\ user_role \in {"MANAGER", "TSC_CONSULTANT"}
            /\ any_term(<<"find", "search", "employee">>, str_lower(query))
    THEN [all_employees |-> self.employees, skill_ontology |-> self.skill_ontology]
    ELSE <<>>

(* "key" in data_needs.get("needed_data", [])                              *)
needs(data_needs, key) ==
    /\ "needed_data" \in DOMAIN data_needs
    /\ \E i \in 1..Len(data_needs["needed_data"]) : data_needs["needed_data"][i] = key

(* _gather_context_data; the timestamp, which nothing reads, is left out.  *)
_gather_context_data(self, reply, query, user_role, employee_id) ==
    LET context == [query |-> query, user_role |-> user_role, employee_id |-> employee_id]
    IN  IF reply.ok
        THEN (IF employee_id # None
              THEN [employee |-> next_employee(self.employees, employee_id)]
              ELSE [all_employees |-> self.employees])
             @@ (IF needs(reply.content, "requisition_data")
                 THEN [requisitions |-> SelectSeq(self.requisitions, IsOpen)] ELSE <<>>)
             @@ (IF needs(reply.content, "skill_ontology")
                 THEN [skill_ontology |-> self.skill_ontology] ELSE <<>>)
             @@ context
        ELSE _fallback_data_gathering(self, query, user_role, employee_id) @@ context

(* _fallback_employee_processing; find_positions_for_employee is not a     *)
(* method of GenAIChatbot.                                                 *)
_fallback_employee_processing(self, query, context) ==
    IF "employee" \notin DOMAIN context \/ DictGet(context, "employee", 0) = 0
    THEN Return([error |-> "Employee not found"])
    ELSE IF \/ contains(chars("open positions"), str_lower(query))
            \/ contains(chars("find jobs"), str_lower(query))
    THEN getattr("find_positions_for_employee")
    ELSE Return(
        [response |-> "I can help you find positions matching your skills. Please try queries like 'Find open positions' or 'Check positions for Java skills'",
         employee |-> self.employees[context["employee"]]["name"]])

(* _process_employee_advisor                                               *)
_process_employee_advisor(self, reply, query, context) ==
    IF reply.ok
    THEN Return([type |-> "employee_advisor_response", llm_response |-> reply.content])
    ELSE _fallback_employee_processing(self, query, context)

(* _fallback_staffing_processing; find_employees_by_skills is not a method *)
(* of GenAIChatbot.                                                        *)
_fallback_staffing_processing(self, query, context) ==
    getattr("find_employees_by_skills")

(* _parse_skill_requirements_ai; _parse_skill_requirements_fallback is not *)
(* a method of GenAIChatbot, and the handler raises in its turn.           *)
_parse_skill_requirements_ai(reply, query) ==
    IF reply.ok THEN Return(reply.content)
    ELSE getattr("_parse_skill_requirements_fallback")

(* _process_staffing_consultant: whatever is raised inside the try, the    *)
(* parser's exception too, leads to the fallback.                          *)
_process_staffing_consultant(self, reply, parse_reply, query, context) ==
    IF ~reply.ok THEN _fallback_staffing_processing(self, query, context)
    ELSE LET skill_requirements == _parse_skill_requirements_ai(parse_reply, query)
         IN  IF skill_requirements.raised # None
             THEN _fallback_staffing_processing(self, query, context)
             ELSE Return([type |-> "staffing_consultant_response",
                          llm_response |-> reply.content,
                          search_criteria |-> skill_requirements.value])

(* Step 3 of process_query: the selected agent's method;                   *)
(* _process_skill_analyst and _process_general_assistant are not methods   *)
(* of GenAIChatbot.                                                        *)
process_with_agent(self, llm, selected_agent, query, context_data) ==
    IF selected_agent = "employee_advisor"
    THEN _process_employee_advisor(self, llm.advisor, query, context_data)
    ELSE IF selected_agent = "staffing_consultant"
    THEN _process_staffing_consultant(self, llm.staffing, llm.parse, query, context_data)
    ELSE IF selected_agent = "skill_analyst"
    THEN getattr("_process_skill_analyst")
    ELSE getattr("_process_general_assistant")

(* The model calls process_query made that failed.                         *)
failed_calls(llm, agent_selection) ==
    {step \in {"select"} : ~llm.select.ok}
    \cup (IF "selected_agent" \notin DOMAIN agent_selection THEN {}
          ELSE {step \in {"gather"} : ~llm.gather.ok}
               \cup {step \in {"advisor"} :
                        agent_selection["selected_agent"] = "employee_advisor" /\ ~llm.advisor.ok}
               \cup {step \in {"staffing"} :
                        agent_selection["selected_agent"] = "staffing_consultant"
                        /\ ~llm.staffing.ok}
               \cup {step \in {"parse"} :
                        agent_selection["selected_agent"] = "staffing_consultant"
                        /\ llm.staffing.ok /\ ~llm.parse.ok})

(* process_query; llm gives the outcome of each model call it may make.    *)
(* The result carries, beside what is returned or raised, the selection    *)
(* and the model calls that failed.                                        *)
process_query(self, llm, user_role, query, employee_id) ==
    LET agent_selection == select_agent(llm.select, query, user_role)
        failed == failed_calls(llm, agent_selection)
    IN  IF "selected_agent" \notin DOMAIN agent_selection
        THEN [raised |-> "KeyError", value |-> None,
              agent_selection |-> agent_selection, failed |-> failed]
        ELSE LET selected_agent == agent_selection["selected_agent"]
                 context_data ==
                     _gather_context_data(self, llm.gather, query, user_role, employee_id)
                 response ==
                     process_with_agent(self, llm, selected_agent, query, context_data)
             IN  IF response.raised # None
                 THEN [raised |-> response.raised, value |-> None,
                       agent_selection |-> agent_selection, failed |-> failed]
                 ELSE [raised |-> None,
                       value |-> [agent_metadata |-> agent_selection,
                                  selected_agent |-> selected_agent] @@ response.value,
                       agent_selection |-> agent_selection, failed |-> failed]


-----------------------------------------------------------------------------
(* The inputs.                                                              *)

(* All sequences over S of length at most n.                               *)
SeqsUpTo(S, n) == UNION {[1..k -> S] : k \in 0..n}

EmpLevelInputs == Levels \cup {OtherLevel}
ReqLevelInputs == Levels \cup {OtherLevel}

(* The scorer's inputs.                                                     *)
EmpSkillInputs ==
    {Skill("Java", e, l) : e \in 0..MaxExp, l \in EmpLevelInputs}
ReqSkillInputs ==
    {ReqSkill("Java", m, l, TRUE) : m \in 0..MaxMinExp, l \in ReqLevelInputs}

(* Generated employees: on the bench, holding no skill or one.  Employees  *)
(* with several skills are those of the mock data.                         *)
GenEmpSkills ==
    {Skill("Java", e, l) : e \in 0..MaxMatchExp, l \in {"INTERMEDIATE", "ADVANCED"}}
GenEmployees ==
    {Employee("EMP900", "Generated", "BENCH", NoDate, date(2024, 6, 1), skills, 40, "Pune") :
        skills \in {<<>>} \cup {<<s>> : s \in GenEmpSkills}}

(* Generated requisitions: any short list of required skills, whose names  *)
(* differ in case from the employee's ("java") or are not held ("SQL").    *)
GenReqSkills ==
    {ReqSkill(n, m, l, mand) : n \in {"java", "SQL"}, m \in 0..MaxMatchMinExp,
                               l \in {"INTERMEDIATE", "ADVANCED"}, mand \in BOOLEAN}
GenRequisitions ==
    {Requisition("REQ900", "Generated", "Developer", "OPEN", date(2024, 7, 1), required, "Pune") :
        required \in SeqsUpTo(GenReqSkills, MaxReqSkills)}

(* Generated ad-hoc requirement lists (no is_mandatory key).               *)
GenRequirements ==
    SeqsUpTo({[skill_name |-> n, min_experience |-> m, required_level |-> l] :
                 n \in {"java", "SQL"}, m \in 0..MaxMatchMinExp,
                 l \in {"INTERMEDIATE", "ADVANCED"}}, MaxReqSkills)

Range(seq) == {seq[i] : i \in 1..Len(seq)}

EmployeeInputs == Range(_load_mock_employees) \cup GenEmployees
RequisitionInputs == Range(_load_mock_requisitions) \cup GenRequisitions

(* The employees _check_availability is tried on: every status, known or   *)
(* not, with the dates that status comes with.                             *)
FirstDay == date(2024, 6, 28)
DayInputs == FirstDay..(FirstDay + MaxDays)
AvailabilityInputs ==
    {Employee("EMP901", "Generated", "BENCH", NoDate, d, <<>>, 40, "Pune") : d \in DayInputs}
    \cup {Employee("EMP901", "Generated", st, d, NoDate, <<>>, 40, "Pune") :
             st \in {"NOTICE_PERIOD", "TRANSITIONING", "ACTIVE", "ON_LEAVE"}, d \in DayInputs}

(* Query texts: up to MaxQueryWords words of a vocabulary, in its order,   *)
(* joined by blanks.  The words are written as a user might (capitals,     *)
(* "SQL" inside "PostgreSQL", the digits inside "2+ years").               *)
ParserWords ==
    <<"Java", "REACT", "Angular", "2+ years", "3+ years", "PostgreSQL", "Python",
      "Spring", "Node", "AWS">>
ServiceWords == <<"Java", "REACT", "2+ years", "SQL", "Python", "Spring">>

RECURSIVE join(_, _)
join(words, S) ==
    IF S = {} THEN <<>>
    ELSE LET i == CHOOSE i \in S : \A j \in S : i <= j
             rest == S \ {i}
         IN  chars(words[i]) \o (IF rest = {} THEN <<>> ELSE <<" ">> \o join(words, rest))

QueriesOver(words, n) ==
    {join(words, S) : S \in {T \in SUBSET (1..Len(words)) : Cardinality(T) <= n}}

ParserQueries == QueriesOver(ParserWords, MaxQueryWords)
SkillQueries == QueriesOver(ServiceWords, MaxQueryWords)

(* What a chat query opens with: nothing, or a phrase a dispatcher looks   *)
(* for.                                                                    *)
TriggerInputs ==
    {"", "Open Positions for", "Find Jobs for", "Opportunities for", "Check Position for",
     "Specific Skills:", "Find Employees with", "Search Resources:", "Java React Angular"}
ChatQueries ==
    {IF t = "" THEN q ELSE chars(t) \o <<" ">> \o q : t \in TriggerInputs, q \in SkillQueries}

UnknownEmployeeId == "EMP999"
UserRoleInputs == {"MANAGER", "TSC"}

(* The requirement lists the parser gives.                                 *)
ParsedRequirements == {_parse_skill_requirements(q) : q \in SkillQueries}

(* The stores the public methods are tried on: the mock data, followed by  *)
(* up to MaxExtraReqs further requisitions (one on hold, one with the      *)
(* required skills of REQ004, one asking for SQL only) and, or not, by two *)
(* further employees (one on leave, one on the bench with the skills of    *)
(* EMP001).                                                                *)
ExtraRequisitions ==
    {Requisition("REQ005", "Core Banking", "Full Stack Developer", "ON_HOLD",
         date(2024, 7, 1), _load_mock_requisitions[1]["required_skills"], "Pune"),
     Requisition("REQ006", "Claims Portal", "Java Full Stack Developer", "OPEN",
         date(2024, 7, 10), _load_mock_requisitions[4]["required_skills"], "Pune"),
     Requisition("REQ007", "Reporting", "Database Developer", "OPEN",
         date(2024, 7, 15), <<ReqSkill("SQL", 1, "INTERMEDIATE", TRUE)>>, "Pune")}
ExtraEmployees ==
    <<Employee("EMP006", "Meera Nair", "ON_LEAVE", date(2024, 9, 1), NoDate,
         <<Skill("Java", 6, "EXPERT"), Skill("SQL", 4, "ADVANCED"),
           Skill("React", 3, "ADVANCED")>>, 41, "Pune"),
     Employee("EMP007", "Arjun Rao", "BENCH", NoDate, date(2024, 6, 1),
         _load_mock_employees[1]["skills"], 40, "Pune")>>
(* The match lists the summary is tried on: up to MaxMatches matches with  *)
(* the scores at, next to and away from the ends of the bands (0.00,       *)
(* 25.00, 49.99, 50.00, 79.99, 80.00, 100.00), in any order.               *)
ScoreInputs == {0, 2500, 4999, 5000, 7999, 8000, 10000}
MatchListInputs ==
    SeqsUpTo({[employee_id |-> "EMP900", total_score |-> score] : score \in ScoreInputs},
             MaxMatches)

(* The inputs of the LLM-backed variant: queries, roles, employee ids, and *)
(* for each model call a failure or a reply.  The selection reply names    *)
(* one of the four agents, or another name, or lacks the key.              *)
agents == {"employee_advisor", "staffing_consultant", "skill_analyst", "general_assistant"}
LlmQueries ==
    {chars(q) : q \in {"Find open positions", "Any job for me", "Improve my skills",
                       "Find employees with Java", "Hello"}}
LlmRoleInputs == {"EMPLOYEE", "MANAGER", "GUEST"}
EmployeeIdInputs == {None, "EMP001", UnknownEmployeeId}
SelectReplies ==
    {Failed}
    \cup {Replied([selected_agent |-> a, confidence |-> 9, reasoning |-> "reply"]) :
             a \in agents \cup {"career_coach"}}
    \cup {Replied([agent |-> "employee_advisor"])}
GatherReplies ==
    {Failed, Replied([needed_data |-> <<>>]),
     Replied([needed_data |-> <<"requisition_data", "skill_ontology">>])}
TextReplies == {Failed, Replied("reply")}
ParseReplies ==
    {Failed,
     Replied(<<[skill_name |-> "Java", min_experience |-> 5, required_level |-> "ADVANCED",
                priority |-> "HIGH"]>>)}
LlmInputs ==
    [select : SelectReplies, gather : GatherReplies, advisor : TextReplies,
     staffing : TextReplies, parse : ParseReplies]

StoreRequisitionInputs ==
    {_load_mock_requisitions \o extra : extra \in SeqsUpTo(ExtraRequisitions, MaxExtraReqs)}
StoreEmployeeInputs == {_load_mock_employees, _load_mock_employees \o ExtraEmployees}


-----------------------------------------------------------------------------
(* The state machine: a call is made on the idle service with some inputs, *)
(* returns or raises, and its transient result is dropped.                 *)

Init ==
    /\ employees = _load_mock_employees
    /\ requisitions = _load_mock_requisitions
    /\ skill_ontology = _load_skill_ontology
    /\ today \in DayInputs
    /\ pc = "idle"
    /\ op = None
    /\ args = None
    /\ result = None

Score ==
    /\ pc = "idle"
    /\ \E emp_skill \in EmpSkillInputs, req_skill \in ReqSkillInputs :
        /\ args' = [emp_skill |-> emp_skill, req_skill |-> req_skill]
        /\ result' = _calculate_skill_match_score(emp_skill, req_skill)
    /\ op' = "_calculate_skill_match_score"
    /\ pc' = "done"
    /\ UNCHANGED <<employees, requisitions, skill_ontology, today>>

MatchRequisition ==
    /\ pc = "idle"
    /\ \E employee \in EmployeeInputs, requisition \in RequisitionInputs, half_up \in BOOLEAN :
        /\ args' = [employee |-> employee, requisition |-> requisition]
        /\ result' = _calculate_employee_requisition_match(employee, requisition, half_up)
    /\ op' = "_calculate_employee_requisition_match"
    /\ pc' = "done"
    /\ UNCHANGED <<employees, requisitions, skill_ontology, today>>

MatchSkills ==
    /\ pc = "idle"
    /\ \E employee \in EmployeeInputs, requirements \in GenRequirements, half_up \in BOOLEAN :
        /\ args' = [employee |-> employee, requirements |-> requirements]
        /\ result' = _calculate_employee_skill_match(employee, requirements, half_up)
    /\ op' = "_calculate_employee_skill_match"
    /\ pc' = "done"
    /\ UNCHANGED <<employees, requisitions, skill_ontology, today>>

CheckAvailability ==
    /\ pc = "idle"
    /\ \E employee \in AvailabilityInputs, requisition \in Range(requisitions) :
        /\ args' = [employee |-> employee, requisition |-> requisition]
        /\ result' = _check_availability(employee, requisition)
    /\ op' = "_check_availability"
    /\ pc' = "done"
    /\ UNCHANGED <<employees, requisitions, skill_ontology, today>>

MatchSkillsByStatus ==
    /\ pc = "idle"
    /\ \E employee \in Range(employees) \cup AvailabilityInputs,
          requirements \in ParsedRequirements, half_up \in BOOLEAN :
        /\ args' = [employee |-> employee, requirements |-> requirements]
        /\ result' = _calculate_employee_skill_match(employee, requirements, half_up)
    /\ op' = "_calculate_employee_skill_match"
    /\ pc' = "done"
    /\ UNCHANGED <<employees, requisitions, skill_ontology, today>>

ParseSkillRequirements ==
    /\ pc = "idle"
    /\ \E query \in ParserQueries :
        /\ args' = [query |-> query]
        /\ result' = Return(_parse_skill_requirements(query))
    /\ op' = "_parse_skill_requirements"
    /\ pc' = "done"
    /\ UNCHANGED <<employees, requisitions, skill_ontology, today>>

FindPositionsForEmployee ==
    /\ pc = "idle"
    /\ \E employee \in Range(employees), half_up \in BOOLEAN :
        \E out \in {find_positions_for_employee(Self(employees, requisitions, skill_ontology), employee, half_up)} :
            /\ args' = [employee |-> employee]
            /\ result' = [raised |-> out.raised, value |-> out.value, scored |-> out.scored]
            /\ employees' = out.self.employees
            /\ requisitions' = out.self.requisitions
            /\ skill_ontology' = out.self.skill_ontology
    /\ op' = "find_positions_for_employee"
    /\ pc' = "done"
    /\ UNCHANGED today

FindPositionsWithSpecificSkills ==
    /\ pc = "idle"
    /\ \E employee \in Range(employees), query \in SkillQueries, half_up \in BOOLEAN :
        \E out \in {find_positions_with_specific_skills(Self(employees, requisitions, skill_ontology),
                                                       employee, query, half_up)} :
            /\ args' = [employee |-> employee, query |-> query]
            /\ result' = [raised |-> out.raised, value |-> out.value, scored |-> out.scored]
            /\ employees' = out.self.employees
            /\ requisitions' = out.self.requisitions
            /\ skill_ontology' = out.self.skill_ontology
    /\ op' = "find_positions_with_specific_skills"
    /\ pc' = "done"
    /\ UNCHANGED today

FindEmployeesBySkills ==
    /\ pc = "idle"
    /\ \E query \in SkillQueries, half_up \in BOOLEAN :
        \E out \in {find_employees_by_skills(Self(employees, requisitions, skill_ontology), query, half_up)} :
            /\ args' = [query |-> query]
            /\ result' = [raised |-> out.raised, value |-> out.value, scored |-> out.scored]
            /\ employees' = out.self.employees
            /\ requisitions' = out.self.requisitions
            /\ skill_ontology' = out.self.skill_ontology
    /\ op' = "find_employees_by_skills"
    /\ pc' = "done"
    /\ UNCHANGED today

ProcessEmployeeQuery ==
    /\ pc = "idle"
    /\ \E employee_id \in {e["employee_id"] : e \in Range(employees)} \cup {UnknownEmployeeId},
          query \in ChatQueries, half_up \in BOOLEAN :
        \E out \in {process_employee_query(Self(employees, requisitions, skill_ontology),
                                          employee_id, query, half_up)} :
            /\ args' = [employee_id |-> employee_id, query |-> query]
            /\ result' = [raised |-> out.raised, value |-> out.value, scored |-> out.scored]
            /\ employees' = out.self.employees
            /\ requisitions' = out.self.requisitions
            /\ skill_ontology' = out.self.skill_ontology
    /\ op' = "process_employee_query"
    /\ pc' = "done"
    /\ UNCHANGED today

ProcessManagerQuery ==
    /\ pc = "idle"
    /\ \E user_role \in UserRoleInputs, query \in ChatQueries, half_up \in BOOLEAN :
        \E out \in {process_manager_query(Self(employees, requisitions, skill_ontology),
                                         user_role, query, half_up)} :
            /\ args' = [user_role |-> user_role, query |-> query]
            /\ result' = [raised |-> out.raised, value |-> out.value, scored |-> out.scored]
            /\ employees' = out.self.employees
            /\ requisitions' = out.self.requisitions
            /\ skill_ontology' = out.self.skill_ontology
    /\ op' = "process_manager_query"
    /\ pc' = "done"
    /\ UNCHANGED today

GenerateSearchSummary ==
    /\ pc = "idle"
    /\ \E matches \in MatchListInputs, requirements \in {<<Requirement("Java", 5, "ADVANCED")>>} :
        /\ args' = [matches |-> matches, requirements |-> requirements]
        /\ result' = Return(_generate_search_summary(matches, requirements))
    /\ op' = "_generate_search_summary"
    /\ pc' = "done"
    /\ UNCHANGED <<employees, requisitions, skill_ontology, today>>

ProcessQuery ==
    /\ pc = "idle"
    /\ \E llm \in LlmInputs, user_role \in LlmRoleInputs, query \in LlmQueries,
          employee_id \in EmployeeIdInputs :
        /\ args' = [user_role |-> user_role, query |-> query, employee_id |-> employee_id,
                    llm |-> llm]
        /\ result' = process_query(Self(employees, requisitions, skill_ontology),
                                   llm, user_role, query, employee_id)
    /\ op' = "process_query"
    /\ pc' = "done"
    /\ UNCHANGED <<employees, requisitions, skill_ontology, today>>

Respond ==
    /\ pc = "done"
    /\ pc' = "idle"
    /\ op' = None
    /\ args' = None
    /\ result' = None
    /\ UNCHANGED <<employees, requisitions, skill_ontology, today>>

Next ==
    \/ Score \/ MatchRequisition \/ MatchSkills \/ CheckAvailability
    \/ MatchSkillsByStatus \/ ParseSkillRequirements
    \/ FindPositionsForEmployee \/ FindPositionsWithSpecificSkills \/ FindEmployeesBySkills
    \/ ProcessEmployeeQuery \/ ProcessManagerQuery
    \/ GenerateSearchSummary
    \/ ProcessQuery
    \/ Respond

Spec == Init /\ [][Next]_vars

(* The scorer alone, on every pair of its inputs.                          *)
NextScore == Score \/ Respond
SpecScore == Init /\ [][NextScore]_vars

(* The two matchers, on the mock and the generated inputs, on one day.     *)
InitMatch == Init /\ today = FirstDay
NextMatch == MatchRequisition \/ MatchSkills \/ Respond
SpecMatch == InitMatch /\ [][NextMatch]_vars

(* The availability check, on every day.                                   *)
NextAvail == CheckAvailability \/ Respond
SpecAvail == Init /\ [][NextAvail]_vars

(* The skill-set matcher on employees of every status, on every day.       *)
NextBench == MatchSkillsByStatus \/ Respond
SpecBench == Init /\ [][NextBench]_vars

(* The requirement parser, on every query text.                            *)
NextParse == ParseSkillRequirements \/ Respond
SpecParse == Init /\ [][NextParse]_vars

(* The three searches, on every store, on one day.                         *)
InitStore ==
    /\ employees \in StoreEmployeeInputs
    /\ requisitions \in StoreRequisitionInputs
    /\ skill_ontology = _load_skill_ontology
    /\ today = FirstDay
    /\ pc = "idle"
    /\ op = None
    /\ args = None
    /\ result = None
NextStore ==
    FindPositionsForEmployee \/ FindPositionsWithSpecificSkills \/ FindEmployeesBySkills
    \/ Respond
SpecStore == InitStore /\ [][NextStore]_vars

(* The chat service as constructed: employee and manager queries in any    *)
(* order, on every day.                                                    *)
NextQuery ==
    \/ FindPositionsForEmployee \/ FindPositionsWithSpecificSkills \/ FindEmployeesBySkills
    \/ ProcessEmployeeQuery \/ ProcessManagerQuery
    \/ Respond
SpecQuery == Init /\ [][NextQuery]_vars

(* The search summary, on every match list and as the manager search      *)
(* builds it on the mock data, on one day.                                 *)
NextSummary == GenerateSearchSummary \/ FindEmployeesBySkills \/ Respond
SpecSummary == InitMatch /\ [][NextSummary]_vars

(* The LLM-backed variant, on every outcome of its model calls.            *)
NextLLM == ProcessQuery \/ Respond
SpecLLM == InitMatch /\ [][NextLLM]_vars

Returned(name) == pc = "done" /\ op = name /\ result.raised = None

-----------------------------------------------------------------------------
(* The claims.                                                              *)

ScoreOp == "_calculate_skill_match_score"
ReqMatchOp == "_calculate_employee_requisition_match"
SkillMatchOp == "_calculate_employee_skill_match"
AvailOp == "_check_availability"

(* The order of the proficiency levels the claims speak of.                *)
LevelRank == [BEGINNER |-> 1, INTERMEDIATE |-> 2, ADVANCED |-> 3, EXPERT |-> 4]

(* C1: for experience_years >= 0 and min_experience > 0, whatever the two  *)
(* levels (known or not), the scorer returns a score between 0 and 1.      *)
C1_ScoreInUnitInterval ==
    (pc = "done" /\ op = ScoreOp
        /\ args.emp_skill["experience_years"] >= 0
        /\ args.req_skill["min_experience"] > 0)
    => (result.raised = None /\ 0 <= result.value /\ result.value <= ScoreDen)

(* C1, witness: the scorer returned 1.0 for an unknown-free pair and is at *)
(* the upper end of the interval.                                          *)
C1_Witness ==
    /\ Returned(ScoreOp)
    /\ args.req_skill["min_experience"] > 0
    /\ args.emp_skill["proficiency_level"] = "EXPERT"
    /\ args.req_skill["required_level"] = "EXPERT"
    /\ result.value = ScoreDen

(* The case of C2: experience at least twice min_experience (> 0) and the  *)
(* employee's level at or above the required one.                          *)
C2_Case ==
    /\ pc = "done" /\ op = ScoreOp
    /\ args.req_skill["min_experience"] > 0
    /\ args.emp_skill["experience_years"] >= 2 * args.req_skill["min_experience"]
    /\ args.emp_skill["proficiency_level"] \in Levels
    /\ args.req_skill["required_level"] \in Levels
    /\ LevelRank[args.emp_skill["proficiency_level"]] >= LevelRank[args.req_skill["required_level"]]

(* C2 as stated: in that case the scorer returns exactly 1.0.              *)
C2_Original == C2_Case => (result.raised = None /\ result.value = ScoreDen)

(* C2, amended: in that case the scorer returns (70 + the points of the    *)
(* required level) / 100, which is 1.0 exactly when the required level is  *)
(* ADVANCED or EXPERT (0.8 for BEGINNER, 0.9 for INTERMEDIATE).            *)
C2_FullExperienceScore ==
    C2_Case =>
        /\ result.raised = None
        /\ result.value = (70 + level_scores[args.req_skill["required_level"]]) * Unit
        /\ (result.value = ScoreDen <=> args.req_skill["required_level"] \in {"ADVANCED", "EXPERT"})

(* C2, witness: an EXPERT with more than twice the experience, scored 0.9  *)
(* against an INTERMEDIATE requirement.                                    *)
C2_Witness ==
    /\ C2_Case
    /\ args.emp_skill["proficiency_level"] = "EXPERT"
    /\ args.req_skill["required_level"] = "INTERMEDIATE"
    /\ args.emp_skill["experience_years"] > 2 * args.req_skill["min_experience"]
    /\ result.value = 90 * Unit

(* C5: with min_experience = 0 the scorer does not fail; it takes the      *)
(* experience ratio as the cap 2.0 (70 points) and returns a score.        *)
C5_ZeroMinExperienceGuarded ==
    (pc = "done" /\ op = ScoreOp /\ args.req_skill["min_experience"] = 0)
    => /\ result.raised = None
       /\ result.value =
            (70 + Min(DictGet(level_scores, args.emp_skill["proficiency_level"], 0),
                      DictGet(level_scores, args.req_skill["required_level"], 15))) * Unit

(* C6: the score does not decrease when the employee's experience grows    *)
(* (levels and min_experience fixed), nor when the employee's level rises  *)
(* in BEGINNER < INTERMEDIATE < ADVANCED < EXPERT (the rest fixed).        *)
C6_Monotone ==
    Returned(ScoreOp) =>
        /\ \A e \in 0..MaxExp :
            e >= args.emp_skill["experience_years"]
            => _calculate_skill_match_score(
                   [args.emp_skill EXCEPT !["experience_years"] = e], args.req_skill).value
               >= result.value
        /\ args.emp_skill["proficiency_level"] \in Levels
           => \A l \in Levels :
                LevelRank[l] >= LevelRank[args.emp_skill["proficiency_level"]]
                => _calculate_skill_match_score(
                       [args.emp_skill EXCEPT !["proficiency_level"] = l], args.req_skill).value
                   >= result.value

(* C6, witness: a returned score that one more year of experience, and     *)
(* also the next level, strictly raises.                                   *)
C6_Witness ==
    /\ Returned(ScoreOp)
    /\ args.emp_skill["proficiency_level"] = "BEGINNER"
    /\ args.emp_skill["experience_years"] < MaxExp
    /\ _calculate_skill_match_score(
           [args.emp_skill EXCEPT !["experience_years"] = @ + 1], args.req_skill).value
       > result.value
    /\ _calculate_skill_match_score(
           [args.emp_skill EXCEPT !["proficiency_level"] = "INTERMEDIATE"], args.req_skill).value
       > result.value


(* The employee's skill that the matchers pair with a required skill.      *)
HeldSkill(employee, req_skill) ==
    employee["skills"][next_skill(employee["skills"], req_skill["skill_name"])]

(* No skill of the employee has that name, whatever the case.              *)
HoldsNone(employee, name) ==
    \A k \in 1..Len(employee["skills"]) : lower(employee["skills"][k]["skill_name"]) # lower(name)

(* The case of C3: the requisition matcher returned for a requisition with *)
(* at least one required skill, every one of them held by the employee at  *)
(* or above the required level and with experience >= min_experience.      *)
C3_Case ==
    /\ Returned(ReqMatchOp)
    /\ args.requisition["required_skills"] # <<>>
    /\ \A i \in 1..Len(args.requisition["required_skills"]) :
        LET req_skill == args.requisition["required_skills"][i]
        IN  /\ ~HoldsNone(args.employee, req_skill["skill_name"])
            /\ HeldSkill(args.employee, req_skill)["proficiency_level"] \in Levels
            /\ req_skill["required_level"] \in Levels
            /\ LevelRank[HeldSkill(args.employee, req_skill)["proficiency_level"]]
                   >= LevelRank[req_skill["required_level"]]
            /\ HeldSkill(args.employee, req_skill)["experience_years"] >= req_skill["min_experience"]

C4_Case ==
    /\ pc = "done" /\ op = ReqMatchOp
    /\ args.employee = employees[1]
    /\ args.requisition = requisitions[1]

(* What C4 says of the two lists: four entries, all MATCHED, none missing. *)
C4_AllFourMatched ==
    /\ result.raised = None
    /\ Len(result.value["skill_matches"]) = 4
    /\ \A i \in 1..4 : result.value["skill_matches"][i]["status"] = "MATCHED"
    /\ result.value["missing_skills"] = <<>>

(* C4 as stated: EMP001 against REQ001 gives four MATCHED entries, no      *)
(* missing skill and total_score = 100.00.                                 *)
C4_Original == C4_Case => (C4_AllFourMatched /\ result.value["total_score"] = 10000)

(* C4, amended: EMP001 against REQ001 gives four MATCHED entries, no       *)
(* missing skill and total_score = 72.48.                                  *)
C4_MockScenario == C4_Case => (C4_AllFourMatched /\ result.value["total_score"] = 7248)

(* C4, witness: the scenario has run, with the four skill scores 0.72,     *)
(* 0.8833.., 0.55 and 0.7666.. behind its total.                           *)
C4_Witness ==
    /\ C4_Case
    /\ result.raised = None
    /\ [i \in 1..4 |-> result.value["skill_matches"][i]["match_score"] * 3]
         = <<216 * Unit, 265 * Unit, 165 * Unit, 230 * Unit>>

(* Every min_experience of a list of required skills is positive.          *)
AllMinPositive(required) == \A i \in 1..Len(required) : required[i]["min_experience"] > 0

(* C7: for every employee and every requisition or ad-hoc requirement list *)
(* with min_experience > 0 throughout, the total_score of the match result *)
(* lies between 0 and 100.                                                 *)
C7_TotalScoreInRange ==
    /\ (pc = "done" /\ op = ReqMatchOp /\ AllMinPositive(args.requisition["required_skills"]))
        => (result.raised = None
            /\ 0 <= result.value["total_score"] /\ result.value["total_score"] <= 10000)
    /\ (pc = "done" /\ op = SkillMatchOp /\ AllMinPositive(args.requirements))
        => (result.raised = None
            /\ 0 <= result.value["total_score"] /\ result.value["total_score"] <= 10000)

(* C7, witness: a requisition of one mandatory and one optional skill,     *)
(* the mandatory one matched in full and the optional one missing, whose   *)
(* total_score lies strictly inside the range.                             *)
C7_Witness ==
    /\ Returned(ReqMatchOp)
    /\ Len(args.requisition["required_skills"]) = 2
    /\ AllMinPositive(args.requisition["required_skills"])
    /\ args.requisition["required_skills"][1]["is_mandatory"]
    /\ ~args.requisition["required_skills"][2]["is_mandatory"]
    /\ Len(result.value["skill_matches"]) = 1
    /\ result.value["skill_matches"][1]["match_score"] = ScoreDen
    /\ result.value["total_score"] = 6667

(* C8: on a requisition with no required skill the requisition matcher     *)
(* returns, without raising, a well-formed result with total_score 0 and   *)
(* empty skill_matches and missing_skills.                                 *)
C8_EmptyRequisition ==
    (pc = "done" /\ op = ReqMatchOp /\ args.requisition["required_skills"] = <<>>)
    => /\ result.raised = None
       /\ DOMAIN result.value = {"requisition_id", "project_name", "role_title", "location",
                                 "start_date", "total_score", "skill_matches",
                                 "missing_skills", "availability_status"}
       /\ result.value["total_score"] = 0
       /\ result.value["skill_matches"] = <<>>
       /\ result.value["missing_skills"] = <<>>

(* C8, witness: an employee who holds skills, matched against a            *)
(* requisition that requires none.                                         *)
C8_Witness ==
    /\ Returned(ReqMatchOp)
    /\ args.requisition["required_skills"] = <<>>
    /\ Len(args.employee["skills"]) > 1
    /\ result.value["requisition_id"] = args.requisition["requisition_id"]

(* C9: a mandatory required skill whose name matches none of the           *)
(* employee's skills, whatever the case, is listed in the result's         *)
(* missing_skills with is_mandatory true, and total_score is below 100.    *)
C9_MissingMandatory ==
    Returned(ReqMatchOp) =>
        \A i \in 1..Len(args.requisition["required_skills"]) :
            LET req_skill == args.requisition["required_skills"][i]
            IN  (req_skill["is_mandatory"] /\ HoldsNone(args.employee, req_skill["skill_name"]))
                => /\ \E j \in 1..Len(result.value["missing_skills"]) :
                        /\ result.value["missing_skills"][j]["skill"] = req_skill["skill_name"]
                        /\ result.value["missing_skills"][j]["is_mandatory"] = TRUE
                   /\ result.value["total_score"] < 10000

(* C9, witness: a mandatory skill the employee lacks, beside a mandatory   *)
(* skill matched in full under a name of another case: total_score 50.00.  *)
C9_Witness ==
    /\ Returned(ReqMatchOp)
    /\ Len(args.requisition["required_skills"]) = 2
    /\ \A i \in 1..2 : args.requisition["required_skills"][i]["is_mandatory"]
    /\ HoldsNone(args.employee, args.requisition["required_skills"][2]["skill_name"])
    /\ Len(result.value["skill_matches"]) = 1
    /\ result.value["skill_matches"][1]["skill"] = "java"
    /\ args.employee["skills"][1]["skill_name"] = "Java"
    /\ result.value["skill_matches"][1]["match_score"] = ScoreDen
    /\ Len(result.value["missing_skills"]) = 1
    /\ result.value["total_score"] = 5000

(* C10: _check_availability gives IMMEDIATELY_AVAILABLE for BENCH,         *)
(* AVAILABLE_SOON with the project_end_date as detail for NOTICE_PERIOD,   *)
(* AVAILABLE_SOON with (project_end_date - today) in days, negative once   *)
(* the date has passed, for TRANSITIONING, and NOT_AVAILABLE otherwise.    *)
C10_Availability ==
    (pc = "done" /\ op = AvailOp) =>
        LET st == args.employee["current_status"]
            end == args.employee["project_end_date"]
        IN  /\ result.raised = None
            /\ st = "BENCH" => result.value.status = "IMMEDIATELY_AVAILABLE"
            /\ st = "NOTICE_PERIOD"
                => /\ result.value.status = "AVAILABLE_SOON"
                   /\ result.value.details = <<"Notice period ends", isoformat(end)>>
            /\ st = "TRANSITIONING"
                => /\ result.value.status = "AVAILABLE_SOON"
                   /\ result.value.details = <<"Available in", end - today, "days">>
            /\ st \notin {"BENCH", "NOTICE_PERIOD", "TRANSITIONING"}
                => result.value.status = "NOT_AVAILABLE"

(* C10, witness: a TRANSITIONING employee whose project_end_date has       *)
(* passed is AVAILABLE_SOON in a negative number of days.                  *)
C10_Witness ==
    /\ Returned(AvailOp)
    /\ args.employee["current_status"] = "TRANSITIONING"
    /\ args.employee["project_end_date"] < today
    /\ result.value.status = "AVAILABLE_SOON"
    /\ result.value.details[2] < 0

-----------------------------------------------------------------------------
(* The searches and the chat queries.                                       *)

ParseOp == "_parse_skill_requirements"
FindPositionsOp == "find_positions_for_employee"
SpecificSkillsOp == "find_positions_with_specific_skills"
FindEmployeesOp == "find_employees_by_skills"
EmployeeQueryOp == "process_employee_query"
ManagerQueryOp == "process_manager_query"

AvailableStatuses == {"BENCH", "TRANSITIONING", "NOTICE_PERIOD"}

(* The place, in a list of the store, of the first element with that id.   *)
StoreIndex(list, key, id) ==
    CHOOSE i \in 1..Len(list) :
        /\ list[i][key] = id
        /\ \A j \in 1..(i - 1) : list[j][key] # id

(* C11: for an employee whose bench_start_date is set exactly when the     *)
(* status is BENCH, the skill-set match reports bench_days = today -       *)
(* bench_start_date if the status is BENCH and 0 for any other status.     *)
C11_BenchDays ==
    (/\ Returned(SkillMatchOp)
     /\ args.employee["current_status"] = "BENCH" <=> args.employee["bench_start_date"] # NoDate)
        => result.value["bench_days"] =
               IF args.employee["current_status"] = "BENCH"
               THEN today - args.employee["bench_start_date"]
               ELSE 0

(* C11, witness: an employee on the bench since before today is matched.   *)
C11_Witness ==
    /\ Returned(SkillMatchOp)
    /\ args.employee["current_status"] = "BENCH"
    /\ args.employee["bench_start_date"] # NoDate
    /\ args.employee["bench_start_date"] < today
    /\ result.value["bench_days"] > 0

(* C12: every match of find_employees_by_skills, and every employee it     *)
(* scores, has status BENCH, TRANSITIONING or NOTICE_PERIOD.               *)
C12_OnlyAvailableEmployees ==
    (Returned(FindEmployeesOp) /\ "matches" \in DOMAIN result.value) =>
        LET matches == result.value["matches"]
            unavailable == {e["employee_id"] : e \in
                               {e \in Range(employees) :
                                   e["current_status"] \notin AvailableStatuses}}
        IN  /\ \A i \in 1..Len(matches) :
                /\ matches[i]["current_status"] \in AvailableStatuses
                /\ matches[i]["employee_id"] \notin unavailable
            /\ \A i \in 1..Len(result.scored) : result.scored[i] \notin unavailable

(* C12, witness: the search returns matches while the store holds an       *)
(* ACTIVE employee and one of another status who would both score above 0. *)
C12_Witness ==
    /\ Returned(FindEmployeesOp)
    /\ "matches" \in DOMAIN result.value
    /\ Len(result.value["matches"]) > 0
    /\ \A st \in {"ACTIVE", "ON_LEAVE"} :
        \E e \in Range(employees) :
            /\ e["current_status"] = st
            /\ _calculate_employee_skill_match(
                   e, result.value["search_criteria"], TRUE).value["total_score"] > 0

(* The list a search returned, and the store list and key it ranks.        *)
Ranked ==
    IF op = FindPositionsOp THEN result.value["matches"]
    ELSE IF op = SpecificSkillsOp THEN result.value["matching_positions"]
    ELSE result.value["matches"]
RankedStore == IF op = FindEmployeesOp THEN employees ELSE requisitions
RankedKey == IF op = FindEmployeesOp THEN "employee_id" ELSE "requisition_id"
ReturnedRanking ==
    /\ pc = "done"
    /\ op \in {FindPositionsOp, SpecificSkillsOp, FindEmployeesOp}
    /\ result.raised = None
    /\ DOMAIN result.value \cap {"matches", "matching_positions"} # {}

(* C13: the list each of the three searches returns is in descending       *)
(* total_score, and of two matches of equal score the one produced first   *)
(* (from the earlier element of the store) comes first.                    *)
C13_RankedStable ==
    ReturnedRanking =>
        \A i \in 1..(Len(Ranked) - 1) :
            \/ Ranked[i]["total_score"] > Ranked[i + 1]["total_score"]
            \/ /\ Ranked[i]["total_score"] = Ranked[i + 1]["total_score"]
               /\ StoreIndex(RankedStore, RankedKey, Ranked[i][RankedKey])
                      <= StoreIndex(RankedStore, RankedKey, Ranked[i + 1][RankedKey])

(* C13, witness: a returned list in which two different elements of the    *)
(* store have the same score, and another score is lower.                  *)
C13_Witness ==
    /\ ReturnedRanking
    /\ \E i \in 1..(Len(Ranked) - 1) :
        /\ Ranked[i]["total_score"] = Ranked[i + 1]["total_score"]
        /\ Ranked[i][RankedKey] # Ranked[i + 1][RankedKey]
    /\ \E i \in 1..(Len(Ranked) - 1) :
        Ranked[i]["total_score"] > Ranked[i + 1]["total_score"]

(* The places of the OPEN requisitions on which args.employee scores above *)
(* 0, and of the available employees who score above 0 on the parsed       *)
(* requirements.                                                           *)
PositiveRequisitions(half_up) ==
    {i \in 1..Len(requisitions) :
        /\ requisitions[i]["status"] = "OPEN"
        /\ _calculate_employee_requisition_match(
               args.employee, requisitions[i], half_up).value["total_score"] > 0}
PositiveEmployees(half_up) ==
    {i \in 1..Len(employees) :
        /\ employees[i]["current_status"] \in AvailableStatuses
        /\ _calculate_employee_skill_match(
               employees[i], _parse_skill_requirements(args.query), half_up
               ).value["total_score"] > 0}

(* C14: find_positions_for_employee returns min(5, number of positive      *)
(* matches) matches, each a positive match, and no positive match left out *)
(* scores higher than a returned one; find_employees_by_skills returns     *)
(* every positive match.                                                   *)
C14_TopFiveOrAll ==
    /\ Returned(FindPositionsOp) =>
        \E half_up \in BOOLEAN :
            LET matches == result.value["matches"]
                all == {_calculate_employee_requisition_match(
                            args.employee, requisitions[i], half_up).value :
                            i \in PositiveRequisitions(half_up)}
            IN  /\ result.value["total_matches"] = Cardinality(PositiveRequisitions(half_up))
                /\ Len(matches) = Min(5, result.value["total_matches"])
                /\ Range(matches) \subseteq all
                /\ \A m \in all \ Range(matches) :
                       \A k \in 1..Len(matches) : m["total_score"] <= matches[k]["total_score"]
    /\ (Returned(FindEmployeesOp) /\ "matches" \in DOMAIN result.value) =>
        \E half_up \in BOOLEAN :
            LET matches == result.value["matches"]
                all == {_calculate_employee_skill_match(
                            employees[i], _parse_skill_requirements(args.query), half_up).value :
                            i \in PositiveEmployees(half_up)}
            IN  /\ Len(matches) = Cardinality(PositiveEmployees(half_up))
                /\ result.value["total_employees_found"] = Len(matches)
                /\ Range(matches) = all

(* C14, witness: an employee with more than 5 positive matches gets 5.     *)
C14_Witness ==
    /\ Returned(FindPositionsOp)
    /\ result.value["total_matches"] > 5
    /\ Len(result.value["matches"]) = 5

(* The ids of the requisitions of the store that are not OPEN.             *)
NotOpenIds ==
    {r["requisition_id"] : r \in {r \in Range(requisitions) : r["status"] # "OPEN"}}

(* C15: no requisition whose status is not OPEN is among the results of    *)
(* find_positions_for_employee or find_positions_with_specific_skills, or  *)
(* is scored by them.                                                      *)
C15_OnlyOpenRequisitions ==
    (ReturnedRanking /\ op \in {FindPositionsOp, SpecificSkillsOp}) =>
        /\ \A i \in 1..Len(Ranked) : Ranked[i]["requisition_id"] \notin NotOpenIds
        /\ \A i \in 1..Len(result.scored) : result.scored[i] \notin NotOpenIds

(* C15, witness: find_positions_with_specific_skills returns positions     *)
(* while the store holds a requisition on hold that requires a searched    *)
(* skill and on which the employee would score above 0.                    *)
C15_Witness ==
    /\ ReturnedRanking
    /\ op = SpecificSkillsOp
    /\ Len(Ranked) > 0
    /\ \E r \in Range(requisitions) :
        /\ r["status"] = "ON_HOLD"
        /\ mentions_any(r, result.value["searched_skills"])
        /\ _calculate_employee_requisition_match(
               args.employee, r, TRUE).value["total_score"] > 0

(* The keyword occurs in the query as the claim's rules have it: as a      *)
(* case-insensitive substring, react only with the digit 2 and angular     *)
(* only with the digit 3 somewhere in the query.                           *)
Occurs(keyword, query) ==
    /\ contains(chars(keyword), str_lower(query))
    /\ keyword = "react" => contains(chars("2"), query)
    /\ keyword = "angular" => contains(chars("3"), query)

(* The requirement the parser has for a keyword.                           *)
KeywordRequirement ==
    [java |-> Requirement("Java", 5, "ADVANCED"),
     react |-> Requirement("React", 2, "INTERMEDIATE"),
     angular |-> Requirement("Angular", 3, "ADVANCED"),
     sql |-> Requirement("SQL", 1, "INTERMEDIATE")]

(* C16 as stated: each of the eight keywords that occurs has a requirement *)
(* in the parser's output.                                                 *)
C16_Original ==
    Returned(ParseOp) =>
        \A k \in 1..Len(skill_keywords) :
            Occurs(skill_keywords[k], args.query)
                => \E i \in 1..Len(result.value) :
                       lower(result.value[i]["skill_name"]) = skill_keywords[k]

(* C16: the parser's output is the requirements of the keywords java,      *)
(* react, angular and sql that occur, in that order, react only with the   *)
(* digit 2 and angular only with the digit 3; python, spring, node and aws *)
(* give no requirement.                                                    *)
C16_ParsedKeywords ==
    Returned(ParseOp) =>
        LET parsed == result.value
            rank == [java |-> 1, react |-> 2, angular |-> 3, sql |-> 4]
        IN  /\ \A k \in DOMAIN KeywordRequirement :
                Occurs(k, args.query) <=> KeywordRequirement[k] \in Range(parsed)
            /\ \A i \in 1..Len(parsed) :
                /\ lower(parsed[i]["skill_name"]) \in DOMAIN KeywordRequirement
                /\ parsed[i] = KeywordRequirement[lower(parsed[i]["skill_name"])]
            /\ \A i \in 1..(Len(parsed) - 1) :
                rank[lower(parsed[i]["skill_name"])] < rank[lower(parsed[i + 1]["skill_name"])]

(* C16, witness: a query with "Python" and "PostgreSQL" gives the SQL      *)
(* requirement alone.                                                      *)
C16_Witness ==
    /\ Returned(ParseOp)
    /\ Occurs("python", args.query)
    /\ Occurs("sql", args.query)
    /\ result.value = <<Requirement("SQL", 1, "INTERMEDIATE")>>

(* C17: when the parser finds no requirement in the query,                 *)
(* find_employees_by_skills returns the error payload that asks for skill  *)
(* requirements, scores no employee and raises nothing.                    *)
C17_NoRequirements ==
    (/\ pc = "done"
     /\ op = FindEmployeesOp
     /\ _parse_skill_requirements(args.query) = <<>>)
        => /\ result.raised = None
           /\ DOMAIN result.value = {"error"}
           /\ result.value["error"] = "Please specify skill requirements. Example: 'Find employees with Java 5+ years, React 2+ years, Angular 3+ years'"
           /\ result.scored = <<>>

(* C17, witness: a query that names a skill the parser does not know, on   *)
(* a store with available employees, gets the error payload.               *)
C17_Witness ==
    /\ pc = "done"
    /\ op = FindEmployeesOp
    /\ Occurs("python", args.query)
    /\ _parse_skill_requirements(args.query) = <<>>
    /\ \E e \in Range(employees) : e["current_status"] \in AvailableStatuses
    /\ "error" \in DOMAIN result.value

(* C18: when the query holds none of the eight keywords,                   *)
(* find_positions_with_specific_skills returns the guidance message with   *)
(* the employee's name, with no match and no gap analysis, and raises      *)
(* nothing.                                                                *)
C18_NoKeyword ==
    (/\ pc = "done"
     /\ op = SpecificSkillsOp
     /\ \A k \in 1..Len(skill_keywords) :
            ~ contains(chars(skill_keywords[k]), str_lower(args.query)))
        => /\ result.raised = None
           /\ DOMAIN result.value = {"response", "employee"}
           /\ result.value["response"] = "Please specify which skills you want to check positions for. For example: 'Check positions for Java and React skills'"
           /\ result.value["employee"] = args.employee["name"]
           /\ result.scored = <<>>

(* C18, witness: a query with text but no keyword, on a store with open    *)
(* requisitions, gets the guidance message.                                *)
C18_Witness ==
    /\ pc = "done"
    /\ op = SpecificSkillsOp
    /\ Len(args.query) > 0
    /\ \A k \in 1..Len(skill_keywords) :
           ~ contains(chars(skill_keywords[k]), str_lower(args.query))
    /\ \E r \in Range(requisitions) : r["status"] = "OPEN"
    /\ "response" \in DOMAIN result.value

(* C19: process_employee_query with an employee_id that no employee of the *)
(* store has returns {"error": "Employee not found"} whatever the query,   *)
(* calls no matcher and raises nothing.                                    *)
C19_UnknownEmployee ==
    (/\ pc = "done"
     /\ op = EmployeeQueryOp
     /\ \A e \in Range(employees) : e["employee_id"] # args.employee_id)
        => /\ result.raised = None
           /\ result.value = [error |-> "Employee not found"]
           /\ result.scored = <<>>

(* C19, witness: an unknown employee asks for open positions of a skill.   *)
C19_Witness ==
    /\ pc = "done"
    /\ op = EmployeeQueryOp
    /\ args.employee_id = UnknownEmployeeId
    /\ contains(chars("open positions"), str_lower(args.query))
    /\ Occurs("java", args.query)
    /\ result.value = [error |-> "Employee not found"]

(* The service object right after construction, and what a query gives on  *)
(* it on the same day.                                                     *)
Fresh == Self(_load_mock_employees, _load_mock_requisitions, _load_skill_ontology)
FreshOutcome(half_up) ==
    IF op = FindPositionsOp
    THEN find_positions_for_employee(Fresh, args.employee, half_up)
    ELSE IF op = SpecificSkillsOp
    THEN find_positions_with_specific_skills(Fresh, args.employee, args.query, half_up)
    ELSE IF op = FindEmployeesOp
    THEN find_employees_by_skills(Fresh, args.query, half_up)
    ELSE IF op = EmployeeQueryOp
    THEN process_employee_query(Fresh, args.employee_id, args.query, half_up)
    ELSE process_manager_query(Fresh, args.user_role, args.query, half_up)

(* C20: after any sequence of employee and manager queries the three       *)
(* collections are as they were after construction, and the result of the  *)
(* last query is the result the query gives on a fresh store on that day.  *)
C20_ReadOnlyStore ==
    /\ employees = _load_mock_employees
    /\ requisitions = _load_mock_requisitions
    /\ skill_ontology = _load_skill_ontology
    /\ pc = "done" =>
        \E half_up \in BOOLEAN :
            /\ result.raised = FreshOutcome(half_up).raised
            /\ result.value = FreshOutcome(half_up).value

(* C20, witness: a manager query has searched the store and found          *)
(* employees.                                                              *)
C20_Witness ==
    /\ Returned(ManagerQueryOp)
    /\ "matches" \in DOMAIN result.value
    /\ Len(result.value["matches"]) > 0
    /\ employees = _load_mock_employees

-----------------------------------------------------------------------------
(* The formulas of the two matchers.                                        *)

(* The weight of a required skill in the requisition matcher.              *)
Weight(req_skill) == IF req_skill["is_mandatory"] THEN 2 ELSE 1

(* The sum, over the first n required skills that the employee holds, of   *)
(* skill score x weight, in units of 1/ScoreDen; a skill the employee      *)
(* lacks adds 0.                                                           *)
RECURSIVE WeightedScoreSum(_, _, _)
WeightedScoreSum(employee, required, n) ==
    IF n = 0 THEN 0
    ELSE WeightedScoreSum(employee, required, n - 1)
         + (IF HoldsNone(employee, required[n]["skill_name"]) THEN 0
            ELSE _calculate_skill_match_score(HeldSkill(employee, required[n]), required[n]).value
                 * Weight(required[n]))

(* 2 x number of mandatory required skills + number of optional ones.      *)
WeightSum(required) ==
    2 * Len(SelectSeq(required, IsMandatory)) + (Len(required) - Len(SelectSeq(required, IsMandatory)))

(* hundredths is the value num / (ScoreDen x den) x 100 rounded to two     *)
(* decimals: it is at most half a hundredth away.                          *)
IsRounded(hundredths, num, den) ==
    LET diff == hundredths * ScoreDen * den - num * 10000
    IN  2 * diff <= ScoreDen * den /\ -2 * diff <= ScoreDen * den

(* C21: the requisition matcher's total_score is, rounded to two decimals, *)
(* 100 x (sum over the matched required skills of skill score x weight) /  *)
(* (2 x mandatory + optional required skills), with weight 2 for a         *)
(* mandatory and 1 for an optional skill; a skill the employee lacks adds  *)
(* 0 above and still counts below.                                         *)
C21_WeightedFormula ==
    (Returned(ReqMatchOp) /\ args.requisition["required_skills"] # <<>>)
    => LET required == args.requisition["required_skills"]
       IN  IsRounded(result.value["total_score"],
                     WeightedScoreSum(args.employee, required, Len(required)),
                     WeightSum(required))

(* C21, witness: an optional skill held and scored 0.9, beside a mandatory *)
(* skill the employee lacks: 100 x 0.9 / 3 = 30.00.                        *)
C21_Witness ==
    /\ Returned(ReqMatchOp)
    /\ Len(args.requisition["required_skills"]) = 2
    /\ ~args.requisition["required_skills"][1]["is_mandatory"]
    /\ args.requisition["required_skills"][2]["is_mandatory"]
    /\ HoldsNone(args.employee, args.requisition["required_skills"][2]["skill_name"])
    /\ Len(result.value["skill_matches"]) = 1
    /\ result.value["skill_matches"][1]["match_score"] = 90 * Unit
    /\ result.value["total_score"] = 3000

(* The sum, over the first n requirements that the employee holds, of the  *)
(* skill score, in units of 1/ScoreDen.                                    *)
RECURSIVE ScoreSum(_, _, _)
ScoreSum(employee, requirements, n) ==
    IF n = 0 THEN 0
    ELSE ScoreSum(employee, requirements, n - 1)
         + (IF HoldsNone(employee, requirements[n]["skill_name"]) THEN 0
            ELSE _calculate_skill_match_score(HeldSkill(employee, requirements[n]),
                                              requirements[n]).value)

(* The requirements, those that has marks carrying the is_mandatory flag   *)
(* that val gives.                                                         *)
Flagged(requirements, has, val) ==
    [i \in 1..Len(requirements) |->
        IF has[i] THEN [is_mandatory |-> val[i]] @@ requirements[i] ELSE requirements[i]]

(* C22: the skill-set matcher's total_score is, rounded to two decimals,   *)
(* 100 x (sum of the skill scores of the requirements the employee holds)  *)
(* / (number of requirements), and 0 for an empty requirement list; and it *)
(* is that same value when any of the requirements carries an is_mandatory *)
(* flag, true or false.                                                    *)
C22_EqualWeightFormula ==
    Returned(SkillMatchOp) =>
        LET requirements == args.requirements
            n == Len(requirements)
            sum == ScoreSum(args.employee, requirements, n)
        IN  /\ n = 0 => result.value["total_score"] = 0
            /\ n > 0 => IsRounded(result.value["total_score"], sum, n)
            /\ \A has \in [1..n -> BOOLEAN], val \in [1..n -> BOOLEAN], half_up \in BOOLEAN :
                LET flagged == _calculate_employee_skill_match(
                                   args.employee, Flagged(requirements, has, val), half_up)
                IN  /\ flagged.raised = None
                    /\ n = 0 => flagged.value["total_score"] = 0
                    /\ n > 0 => IsRounded(flagged.value["total_score"], sum, n)

(* C22, witness: of two requirements the employee holds one, scored 0.9,   *)
(* and lacks the other: 100 x 0.9 / 2 = 45.00.                             *)
C22_Witness ==
    /\ Returned(SkillMatchOp)
    /\ Len(args.requirements) = 2
    /\ Len(result.value["matched_skills"]) = 1
    /\ result.value["matched_skills"][1]["match_score"] = 90 * Unit
    /\ Len(result.value["missing_skills"]) = 1
    /\ result.value["total_score"] = 4500

(* The points the claim gives a level, an unknown level counting default.  *)
LevelPoints(level, default) ==
    CASE level = "BEGINNER" -> 10
      [] level = "INTERMEDIATE" -> 20
      [] level = "ADVANCED" -> 30
      [] level = "EXPERT" -> 30
      [] OTHER -> default

(* The experience component of a score, in units of 1/ScoreDen: 35 points  *)
(* per unit of experience_years / min_experience, at most 70.              *)
ExperiencePoints(emp_skill, req_skill) ==
    Min((35 * Unit * emp_skill["experience_years"]) \div req_skill["min_experience"], 70 * Unit)

(* The level with EXPERT replaced by ADVANCED.                             *)
ExpertAsAdvanced(level) == IF level = "EXPERT" THEN "ADVANCED" ELSE level

(* C23: the proficiency component of the skill score (the score less its   *)
(* experience component) is min(employee level points, required level      *)
(* points) with BEGINNER 10, INTERMEDIATE 20, ADVANCED 30, EXPERT 30, an   *)
(* unknown employee level 0 and an unknown required level 15; an employee  *)
(* level above the required one scores what the required level itself      *)
(* scores, and EXPERT scores what ADVANCED scores, on either side.         *)
C23_ProficiencyMin ==
    Returned(ScoreOp) =>
        LET emp_level == args.emp_skill["proficiency_level"]
            req_level == args.req_skill["required_level"]
        IN  /\ result.value - ExperiencePoints(args.emp_skill, args.req_skill)
                 = Min(LevelPoints(emp_level, 0), LevelPoints(req_level, 15)) * Unit
            /\ (emp_level \in Levels /\ req_level \in Levels
                    /\ LevelRank[emp_level] > LevelRank[req_level])
                => result.value = _calculate_skill_match_score(
                        [args.emp_skill EXCEPT !["proficiency_level"] = req_level],
                        args.req_skill).value
            /\ result.value = _calculate_skill_match_score(
                    [args.emp_skill EXCEPT !["proficiency_level"] = ExpertAsAdvanced(@)],
                    [args.req_skill EXCEPT !["required_level"] = ExpertAsAdvanced(@)]).value

(* C23, witness: an ADVANCED employee with no experience, scored against a *)
(* BEGINNER requirement: the score is the 10 points of the required level. *)
C23_Witness ==
    /\ Returned(ScoreOp)
    /\ args.emp_skill["proficiency_level"] = "ADVANCED"
    /\ args.req_skill["required_level"] = "BEGINNER"
    /\ args.emp_skill["experience_years"] = 0
    /\ result.value = 10 * Unit

-----------------------------------------------------------------------------
(* What the searches report beside their matches.                           *)

(* Where the first three of the matches list a mandatory missing skill:    *)
(* <<k, l>> for the l-th missing skill of the k-th match.                  *)
MandatoryMissing(matches) ==
    UNION {{<<k, l>> : l \in {i \in 1..Len(matches[k]["missing_skills"]) :
                                 matches[k]["missing_skills"][i]["is_mandatory"]}} :
              k \in 1..Min(3, Len(matches))}

(* p comes before q, match by match and then skill by skill.               *)
Before(p, q) == p[1] < q[1] \/ (p[1] = q[1] /\ p[2] < q[2])

(* The first place where the skill is listed as missing and mandatory.     *)
FirstMissing(matches, skill) ==
    CHOOSE p \in MandatoryMissing(matches) :
        /\ matches[p[1]]["missing_skills"][p[2]]["skill"] = skill
        /\ \A q \in MandatoryMissing(matches) :
              matches[q[1]]["missing_skills"][q[2]]["skill"] = skill => (q = p \/ Before(p, q))

(* C24: the recommendations of find_positions_for_employee are exactly the *)
(* mandatory missing skills of the first three matches of the ranking      *)
(* (no optional missing skill, no skill of a match ranked fourth or        *)
(* later), each with priority HIGH, one entry per skill name, in the order *)
(* of first occurrence.                                                    *)
C24_TopThreeMandatory ==
    Returned(FindPositionsOp) =>
        LET matches == result.value["matches"]
            recommendations == result.value["recommendations"]
            missing == {matches[p[1]]["missing_skills"][p[2]]["skill"] :
                           p \in MandatoryMissing(matches)}
        IN  /\ {recommendations[i]["skill"] : i \in 1..Len(recommendations)} = missing
            /\ \A i \in 1..Len(recommendations) : recommendations[i]["priority"] = "HIGH"
            /\ \A i, j \in 1..Len(recommendations) :
                  i < j => /\ recommendations[i]["skill"] # recommendations[j]["skill"]
                           /\ Before(FirstMissing(matches, recommendations[i]["skill"]),
                                     FirstMissing(matches, recommendations[j]["skill"]))

(* C24, witness: four matches; the fourth lacks the mandatory JavaScript,  *)
(* the first lacks the optional SQL and the mandatory Spring Boot, which   *)
(* the second and the third lack too, beside the mandatory SQL: the        *)
(* recommendations are Spring Boot and SQL.                                *)
C24_Witness ==
    /\ Returned(FindPositionsOp)
    /\ Len(result.value["matches"]) = 4
    /\ \E l \in 1..Len(result.value["matches"][4]["missing_skills"]) :
          /\ result.value["matches"][4]["missing_skills"][l]["skill"] = "JavaScript"
          /\ result.value["matches"][4]["missing_skills"][l]["is_mandatory"]
    /\ \E l \in 1..Len(result.value["matches"][1]["missing_skills"]) :
          /\ result.value["matches"][1]["missing_skills"][l]["skill"] = "SQL"
          /\ ~result.value["matches"][1]["missing_skills"][l]["is_mandatory"]
    /\ \A k \in 1..3 :
          \E l \in 1..Len(result.value["matches"][k]["missing_skills"]) :
              /\ result.value["matches"][k]["missing_skills"][l]["skill"] = "Spring Boot"
              /\ result.value["matches"][k]["missing_skills"][l]["is_mandatory"]
    /\ [i \in 1..Len(result.value["recommendations"]) |->
            result.value["recommendations"][i]["skill"]] = <<"Spring Boot", "SQL">>

(* The summary a call has returned and the matches it summarises: those   *)
(* of _generate_search_summary itself or of find_employees_by_skills.      *)
SummaryOp == "_generate_search_summary"
Summarised ==
    \/ Returned(SummaryOp)
    \/ Returned(FindEmployeesOp) /\ "summary" \in DOMAIN result.value
SummaryMatches == IF op = SummaryOp THEN args.matches ELSE result.value["matches"]
Summary == IF op = SummaryOp THEN result.value ELSE result.value["summary"]

(* C25: in the search summary high_matches counts the matches with         *)
(* total_score >= 80, medium_matches those with 50 <= total_score < 80 and *)
(* low_matches those with total_score < 50; every match is in exactly one  *)
(* of the three, and the three counts add up to total_employees.           *)
C25_ScoreBuckets ==
    Summarised =>
        LET matches == SummaryMatches
            high == {i \in 1..Len(matches) : matches[i]["total_score"] >= 8000}
            medium == {i \in 1..Len(matches) : matches[i]["total_score"] >= 5000} \ high
            low == {i \in 1..Len(matches) : matches[i]["total_score"] < 5000}
        IN  /\ Summary["high_matches"] = Cardinality(high)
            /\ Summary["medium_matches"] = Cardinality(medium)
            /\ Summary["low_matches"] = Cardinality(low)
            /\ Summary["total_employees"] = Len(matches)
            /\ Summary["high_matches"] + Summary["medium_matches"] + Summary["low_matches"]
                 = Summary["total_employees"]

(* C25, witness: the summary of three matches scored 80.00, 50.00 and      *)
(* 49.99: one high, one medium, one low.                                   *)
C25_Witness ==
    /\ Returned(SummaryOp)
    /\ {args.matches[i]["total_score"] : i \in 1..Len(args.matches)} = {8000, 5000, 4999}
    /\ Len(args.matches) = 3
    /\ result.value["high_matches"] = 1
    /\ result.value["medium_matches"] = 1
    /\ result.value["low_matches"] = 1

(* C26: the staffing recommendation of the summary is, for an empty match  *)
(* list, the external-hiring text; otherwise, with at least one match of   *)
(* total_score >= 80, the internal-hiring text, whatever other matches     *)
(* there are; otherwise, with at least one match in [50, 80), the          *)
(* training-or-external-backup text; otherwise the strongly-recommend-     *)
(* external text.  The count in the text is the size of the bucket chosen. *)
C26_StaffingPriority ==
    Summarised =>
        LET matches == SummaryMatches
            high == {i \in 1..Len(matches) : matches[i]["total_score"] >= 8000}
            medium == {i \in 1..Len(matches) : matches[i]["total_score"] >= 5000} \ high
            text == Summary["recommendation"]
        IN  /\ Len(matches) = 0
                => text = <<"No suitable internal candidates found. Consider external hiring.">>
            /\ high # {}
                => text = <<"Found", Cardinality(high),
                            "excellent matches. Recommend proceeding with internal hiring.">>
            /\ (high = {} /\ medium # {})
                => text = <<"Found", Cardinality(medium),
                            "potential matches with some skill gaps. Consider training or external backup.">>
            /\ (Len(matches) > 0 /\ high = {} /\ medium = {})
                => text = <<"Limited internal matches. Strongly recommend external hiring with internal backup plan.">>

(* C26, witness: one high match behind two medium ones: the text is the    *)
(* internal-hiring one and quotes 1.                                       *)
C26_Witness ==
    /\ Returned(SummaryOp)
    /\ Len(args.matches) = 3
    /\ args.matches[1]["total_score"] = 5000
    /\ args.matches[2]["total_score"] = 7999
    /\ args.matches[3]["total_score"] = 8000
    /\ result.value["recommendation"][1] = "Found"
    /\ result.value["recommendation"][2] = 1
    /\ result.value["recommendation"][3]
         = "excellent matches. Recommend proceeding with internal hiring."

(* The lower-cased skill names a query keyword stands for.                 *)
KeywordSkills(keyword) ==
    CASE keyword = "spring" -> {"spring", "spring boot"}
      [] keyword = "node" -> {"node", "node.js"}
      [] OTHER -> {keyword}

(* The employee holds a skill the keyword stands for.                      *)
HoldsKeyword(employee, keyword) ==
    \E i \in 1..Len(employee["skills"]) :
        lower(employee["skills"][i]["skill_name"]) \in KeywordSkills(keyword)

(* C27: the skill_gap_analysis of find_positions_with_specific_skills      *)
(* lists, in the order of the query keywords, exactly the queried skills   *)
(* the employee lacks, each with status MISSING and priority MEDIUM, and   *)
(* no queried skill the employee holds (spring for a holder of Spring      *)
(* Boot, node for a holder of Node.js); total_gaps is the list's length.   *)
C27_GapAnalysis ==
    (Returned(SpecificSkillsOp) /\ "skill_gap_analysis" \in DOMAIN result.value) =>
        LET analysis == result.value["skill_gap_analysis"]
            gaps == analysis["skill_gaps"]
            Lacked(keyword) == ~HoldsKeyword(args.employee, keyword)
        IN  /\ [i \in 1..Len(gaps) |-> gaps[i]["skill"]]
                 = SelectSeq(result.value["searched_skills"], Lacked)
            /\ \A i \in 1..Len(gaps) :
                  gaps[i]["status"] = "MISSING" /\ gaps[i]["priority"] = "MEDIUM"
            /\ analysis["total_gaps"] = Len(gaps)

(* The places of the OPEN requisitions that require a searched skill.      *)
SearchedRequisitions ==
    {i \in 1..Len(requisitions) :
        /\ requisitions[i]["status"] = "OPEN"
        /\ \E j \in 1..Len(requisitions[i]["required_skills"]) :
              lower(requisitions[i]["required_skills"][j]["skill_name"])
                  \in Range(result.value["searched_skills"])}

(* C28: every match find_positions_for_employee and                        *)
(* find_employees_by_skills return has total_score > 0, and total_matches  *)
(* and total_employees_found are the numbers of results that scored above  *)
(* 0, whatever part of them is returned; find_positions_with_specific_     *)
(* skills returns every OPEN requisition that requires a searched skill,   *)
(* those with total_score 0 too.                                           *)
C28_ZeroScoresDropped ==
    /\ Returned(FindPositionsOp) =>
        /\ \A k \in 1..Len(result.value["matches"]) :
              result.value["matches"][k]["total_score"] > 0
        /\ \E half_up \in BOOLEAN :
              result.value["total_matches"] = Cardinality(PositiveRequisitions(half_up))
    /\ (Returned(FindEmployeesOp) /\ "matches" \in DOMAIN result.value) =>
        /\ \A k \in 1..Len(result.value["matches"]) :
              result.value["matches"][k]["total_score"] > 0
        /\ \E half_up \in BOOLEAN :
              result.value["total_employees_found"] = Cardinality(PositiveEmployees(half_up))
    /\ (Returned(SpecificSkillsOp) /\ "matching_positions" \in DOMAIN result.value) =>
        LET positions == result.value["matching_positions"]
        IN  /\ Len(positions) = Cardinality(SearchedRequisitions)
            /\ \A i \in SearchedRequisitions :
                  \E k \in 1..Len(positions) :
                      /\ positions[k]["requisition_id"] = requisitions[i]["requisition_id"]
                      /\ \E half_up \in BOOLEAN :
                            positions[k]["total_score"] =
                                _calculate_employee_requisition_match(
                                    args.employee, requisitions[i], half_up).value["total_score"]

(* C28, witness: find_positions_for_employee scored more requisitions than *)
(* it counts in total_matches, one of them at 0.                           *)
C28_Witness ==
    /\ Returned(FindPositionsOp)
    /\ result.value["total_matches"] > 0
    /\ Len(result.scored) > result.value["total_matches"]
    /\ \E i \in 1..Len(requisitions) :
          /\ requisitions[i]["status"] = "OPEN"
          /\ _calculate_employee_requisition_match(
                 args.employee, requisitions[i], TRUE).value["total_score"] = 0

(* A position with total_score 0 among those that                          *)
(* find_positions_with_specific_skills returned.                           *)
C28_ZeroScoreKept ==
    /\ Returned(SpecificSkillsOp)
    /\ "matching_positions" \in DOMAIN result.value
    /\ \E k \in 1..Len(result.value["matching_positions"]) :
          result.value["matching_positions"][k]["total_score"] = 0

-----------------------------------------------------------------------------
(* The LLM-backed variant.                                                  *)

ProcessQueryOp == "process_query"

(* process_query has ended, the selection step having yielded an agent.    *)
AgentSelected ==
    /\ pc = "done" /\ op = ProcessQueryOp
    /\ "selected_agent" \in DOMAIN result.agent_selection

(* The response is a dictionary that carries the selection.                *)
CarriesSelection ==
    /\ result.raised = None
    /\ {"agent_metadata", "selected_agent"} \subseteq DOMAIN result.value
    /\ result.value["agent_metadata"] = result.agent_selection
    /\ result.value["selected_agent"] = result.agent_selection["selected_agent"]

(* C29: for every agent the selection step yields (from the model or from  *)
(* the fallback selection): employee_advisor, staffing_consultant,         *)
(* skill_analyst, general_assistant or any other name, process_query       *)
(* returns a response dictionary that carries agent_metadata and           *)
(* selected_agent.  (Stated for the runs in which the agent's own model    *)
(* calls succeed.)                                                         *)
C29_EveryAgentResponds ==
    (AgentSelected /\ result.failed \subseteq {"select", "gather"}) => CarriesSelection

(* C30: whenever a model call fails (agent selection, context gathering,   *)
(* the employee-advisor or staffing-consultant call, skill-requirement     *)
(* parsing), the fallback runs and process_query ends with a well-formed   *)
(* response, never with an exception.  (Stated for the two agents that     *)
(* have fallbacks.)                                                        *)
C30_FallbackResponds ==
    (/\ AgentSelected
     /\ result.agent_selection["selected_agent"] \in {"employee_advisor", "staffing_consultant"}
     /\ result.failed # {})
    => CarriesSelection

====
